---- MODULE Spec2Model ----
(***************************************************************************)
(* A state-machine model of BalderJS 11.2 (balder.ts): the keyboard, mouse *)
(* and touch trackers, Hitbox/Grid one-shot queries, the layer registry,   *)
(* Sprite frame advancement, the update loop and the text IO panel.        *)
(* Each subsystem has its own specification over the shared state:         *)
(* SpecKeys, SpecHitbox, SpecGrid, SpecLayers, SpecSprite, SpecUpdate, SpecIO. *)
(***************************************************************************)
EXTENDS Integers, Sequences, FiniteSets, TLC

\* Saturation value of the per-press counter of false->true changes.
MaxRises == 2

\* Most simultaneous touches the environment produces.
MaxTouches == 2

\* Saturation value of the observers that count true query results.
MaxCount == 2

\* Layer ids run from -1 to MaxLayerId.
MaxLayerId == 1

\* The viewport's width and height run from 1 to MaxDim.
MaxDim == 2

\* A spritesheet has 1 to MaxFrames frames (rows * columns).
MaxFrames == 2

\* The elapsed time of a tick runs from 0 to MaxDT milliseconds.
MaxDT == 5

\* update() is not followed once remainingTime would fall below -MaxLag.
MaxLag == 4
MaxParam == 2
MaxReads == 3
MaxPanel == 3
MaxText == 3

\* The expected text of the o parameter has at most MaxExpected characters.
MaxExpected == 2

\* A constructed grid has 1 to MaxGridN rows and columns.
MaxGridN == 2

\* The width and height of a constructed grid run from 0 to MaxGridExtent.
MaxGridExtent == 5

\* Turtle.delay runs from 1 to MaxDelay ms.
MaxDelay == 2

\* The caller issues at most MaxCommands turtle commands.
MaxCommands == 3

\* The clock stops at MaxTime ms.
MaxTime == 4

\* fetchImages is called with at most MaxImages paths.
MaxImages == 3

\* The console holds at most MaxLines lines between two clearConsole calls.
MaxLines == 3

\* A message is repeated at most MaxRepetition times in a row.
MaxRepetition == 3

\* At most MaxUiNodes nodes are put under the ui panel between two clearUI calls.
MaxUiNodes == 2

\* array is called with lengths up to MaxArrayLength, and with plain values
\* from -MaxPlain to MaxPlain.
MaxArrayLength == 4
MaxPlain == 3

VARIABLES
    _keys,      \* balder.ts:442  Record<string, boolean | null>; absent = "undefined"
    _keyName,   \* balder.ts:441  code of the latest key that was set pressed
    held,       \* environment: which keys are physically down (keydown seen, keyup not yet)
    watch,      \* the key whose presses are observed
    rises,      \* observer: false->true changes of the watched query in the current press
    tainted     \* observer: the current press began cleared, or met a blur / paired keyup

VARIABLES
    _buttons,     \* balder.ts:488  (boolean | null)[]; a hole = "undefined"
    _mouseX,      \* balder.ts:485
    _mouseY,      \* balder.ts:486
    _mouseOver,   \* balder.ts:487
    _touches,     \* balder.ts:539  sequence of <<x, y>>, in the order of event.touches
    _touchable,   \* balder.ts:544
    btnHeld,      \* environment: which mouse buttons are physically down
    touchCleared, \* observer: touched = false was set since the last event without touches
    clickable,    \* balder.ts:791  Hitbox.clickable
    spanTrues,    \* observer: true results of clicked since all buttons/touches were last up
    ptrTampered,  \* observer: the application cleared a button/touch, or a mouseout occurred
    scen,         \* observer: progress through press, (true, false), release, press again
    observed,     \* which scene object the observers follow: "hitbox" or "grid",
                  \* or "press": both, by the first query of each press
    firstQuery,   \* observer: what the first clicked / activated query of the press saw
    activatable,  \* balder.ts:670  Grid.activatable
    _activeCell,  \* balder.ts:671  Grid._activeCell, as <<row, column>>
    cycleTrues,   \* observer: true results of activated while a button/touch stays active
    cycleChanges  \* observer: changes of activeCell while a button/touch stays active

VARIABLES
    _canvasLayers,  \* balder.ts:27   layer id -> surface (exists, width, height, zIndex, serial, ink)
    _layer,         \* balder.ts:29   the active layer id
    ctx,            \* balder.ts:42   the layer whose rendering context ctx is
    W,              \* balder.ts:57
    H,              \* balder.ts:72
    viewport,       \* environment: <<width, height>> the canvas container computes to
    canvasDisplay,  \* canvas.style.display: "" (shown) or "none"
    resized         \* observer: resetCanvas has given two or more surfaces a new size

VARIABLES
    DT,             \* balder.ts:1173  milliseconds since the previous tick
    index,          \* balder.ts:878   Sprite.index
    remainingTime,  \* balder.ts:879   Sprite.remainingTime
    _frames,        \* balder.ts:880   Sprite._frames
    _finished,      \* balder.ts:885   Sprite._finished
    _framesPerSecond, \* balder.ts:886
    loop,           \* balder.ts:891   Sprite.loop
    elapsed,        \* observer: sum of the DT of the update() calls so far (saturating)
    underflows,     \* observer: update() calls that found remainingTime < 0 (saturating)
    smallSteps,     \* observer: every DT so far was at most one frame duration
    steady          \* observer: loop, frames and framesPerSecond are as first configured

VARIABLES
    _update,        \* balder.ts:1175  the installed update callback
    _timestamp0,    \* balder.ts:1176  "undefined" until the first refresh, then "set"
    scheduled,      \* whether requestAnimationFrame(_updateHandler) is pending
    running,        \* the update callback now executing, or "none"
    calls,          \* observer: callback invocations in the latest refresh
    atStart,        \* observer: _update when the latest refresh began
    calledWith,     \* observer: the callback the latest refresh invoked, or "none"
    setDuring,      \* observer: setUpdate was called inside the latest tick's callback
    lastRefresh,    \* observer: "none" yet, "ticked" (handler ran) or "missed"
    afterThrow      \* observer: "no" callback threw yet, or one "threw", then a callback
                    \* was "installed", then a display refresh "passed"

VARIABLES
    iParam,         \* balder.ts:1551  the decoded i parameter: [present, text]
    _inputLines,    \* balder.ts:1552
    _inputLineIndex,\* balder.ts:1553  (0-based, as in the source)
    _output,        \* balder.ts:1554  _output$: position of the region in ioPanel, 0 for null
    ioPanel,        \* the children of the io element, in document order
    reads,          \* the read() calls in call order: promise, entry element, observers
    lastWritten,    \* observer: region of the latest write since a read/clearIO/start, or 0
    written         \* observer: the text written since the latest read/clearIO/start,
                    \* and whether text was written before it

VARIABLES
    oParam,         \* balder.ts:1651  the decoded o parameter: [present, text]
    resp            \* what the load listener reported (resp$), and what it compared

VARIABLES
    grid,           \* balder.ts:677  the fields of a constructed Grid
    cells,          \* balder.ts:672  Grid.cells: position of the cell at <<row, column>>
    cellProps       \* balder.ts:569  _color, _image, _text, _custom, textColor

VARIABLES
    turtleX,        \* balder.ts:1022  Turtle.x
    turtleY,        \* balder.ts:1023  Turtle.y
    turtleHeading,  \* balder.ts:1024  Turtle.heading, in degrees
    turtleDelay,    \* balder.ts:1019  Turtle.delay, in ms
    now,            \* the time, in ms
    commands        \* the motion commands called so far: promise, timer, observers

VARIABLES
    paths,          \* balder.ts:164  the arguments of the fetchImages call
    images,         \* per path: the Image is "pending", "loaded" or "failed"
    allValues,      \* Promise.all: the values of the promises fulfilled so far
    fetched         \* the promise fetchImages returned: [state, value, message]

VARIABLES
    consoleLines,   \* the message lines of _console$: [kind, text, shown]
    _repetition,    \* balder.ts:1922
    _repetitionAt,  \* balder.ts:1923  _repetition$: the line whose span it is, 0 if none
    _lastValue,     \* balder.ts:1924
    prevMessage,    \* observer: the message before, <<"", "">> if none yet
    occurrences,    \* observer: consecutive occurrences of prevMessage so far
    clearedSince    \* observer: clearConsole was called after prevMessage

VARIABLES
    uiNodes,        \* the number of nodes element() has put directly under ui
    attachedLast    \* observer: the parents the latest element() call attached nodes to

VARIABLES
    arrLength,      \* balder.ts:1248  the length argument of the array call
    arrValue,       \* balder.ts:1248  the value argument: a callback or a plain value
    arrCalled,      \* the call has returned
    arrResult       \* the array it returned

VARIABLES
    lookup          \* the latest grid.cellFromPoint call: its point and its result

VARIABLES
    lastDraw        \* observer: the latest drawing operation of a scene object

keyVars == <<_keys, _keyName, held, watch, rises, tainted>>
ptrVars == <<_buttons, _mouseX, _mouseY, _mouseOver, _touches, _touchable, btnHeld,
             touchCleared>>
hitboxVars == <<clickable, spanTrues, ptrTampered, scen, observed, firstQuery>>
gridVars == <<activatable, _activeCell, cycleTrues, cycleChanges>>

layerVars == <<_canvasLayers, _layer, ctx, W, H, viewport, canvasDisplay, resized>>
spriteVars == <<DT, index, remainingTime, _frames, _finished, _framesPerSecond, loop,
                elapsed, underflows, smallSteps, steady>>

updateVars == <<_update, _timestamp0, scheduled, running, calls, atStart, calledWith,
                setDuring, lastRefresh, afterThrow>>

ioVars == <<iParam, _inputLines, _inputLineIndex, _output, ioPanel, reads, lastWritten, written>>

replayVars == <<oParam, resp>>

\* The state of the parts modelled after text IO.
cellVars == <<grid, cells, cellProps>>
turtleVars == <<turtleX, turtleY, turtleHeading, turtleDelay, now, commands>>
fetchVars == <<paths, images, allValues, fetched>>
consoleVars == <<consoleLines, _repetition, _repetitionAt, _lastValue, prevMessage,
                 occurrences, clearedSince>>
elementVars == <<uiNodes, attachedLast>>
arrayVars == <<arrLength, arrValue, arrCalled, arrResult>>
utilVars == <<arrayVars, lookup, lastDraw>>
extVars == <<replayVars, cellVars, turtleVars, fetchVars, consoleVars, elementVars, utilVars, utilVars>>

vars == <<keyVars, ptrVars, hitboxVars, gridVars, layerVars, spriteVars, updateVars,
          ioVars, extVars>>

Min(a, b) == IF a <= b THEN a ELSE b

(***************************************************************************)
(* Keyboard tracker                                                        *)
(***************************************************************************)

\* Key codes: two keys with a named setter (Space, Enter) and the two coupled pairs.
Keys == {"Space", "Enter", "NumpadEnter", "ShiftLeft", "ShiftRight"}

\* Keys of the model that have a `set <name>(value: false)` accessor.
Settable == {"Space", "Enter"}

\* The values a slot of _keys can hold; "undefined" is an absent property.
KeyState == {"undefined", "true", "false", "null"}

\* !!_keys[code], the getter of keyboard.space, keyboard.enter, ...
KeyQuery(k) == _keys[k] = "true"

\* keyboard.pressed
keyboard_pressed == \E k \in Keys : _keys[k] = "true"

\* The other key of a coupled pair (keyup's switch); a key outside the pairs is its own.
Partner(k) ==
    CASE k = "ShiftLeft" -> "ShiftRight"
      [] k = "ShiftRight" -> "ShiftLeft"
      [] k = "NumpadEnter" -> "Enter"
      [] k = "Enter" -> "NumpadEnter"
      [] OTHER -> k

\* Mutant of keydown: the `!== false` guard dropped.
keydown_NoGuard(k) ==
    /\ _keys' = [_keys EXCEPT ![k] = "true"]
    /\ _keyName' = k

\* The keydown listener's effect on _keys and _keyName.
keydown(k) ==
    IF _keys[k] # "false"
    THEN /\ _keys' = [_keys EXCEPT ![k] = "true"]
         /\ _keyName' = k
    ELSE UNCHANGED <<_keys, _keyName>>

\* Mutant of keyup: the switch on the coupled keys dropped.
keyup_NoSwitch(k) ==
    _keys' = [_keys EXCEPT ![k] = "null"]

\* The keyup listener's effect on _keys.
keyup(k) ==
    _keys' = [_keys EXCEPT ![k] = "null", ![Partner(k)] = "null"]

\* Observer bookkeeping for the watched key, after _keys' and held' are set.
Track(startsPress, taintNow) ==
    LET rise == IF ~KeyQuery(watch) /\ _keys'[watch] = "true" THEN 1 ELSE 0
        base == IF startsPress THEN 0 ELSE rises
        t0 == IF startsPress THEN _keys[watch] = "false" ELSE tainted
    IN /\ watch' = watch
       /\ rises' = IF held'[watch] THEN Min(MaxRises, base + rise) ELSE 0
       /\ tainted' = IF held'[watch] THEN (t0 \/ taintNow) ELSE FALSE

\* Everything outside the keyboard tracker.
notKeyVars == <<ptrVars, hitboxVars, gridVars, layerVars, spriteVars, updateVars, ioVars,
               extVars>>

\* First keydown of a physical press.
KeyPress(k) ==
    /\ ~held[k]
    /\ held' = [held EXCEPT ![k] = TRUE]
    /\ keydown(k)
    /\ Track(k = watch, FALSE)
    /\ UNCHANGED notKeyVars

\* Auto-repeat keydown while the key is held.
KeyRepeat(k) ==
    /\ held[k]
    /\ UNCHANGED held
    /\ keydown(k)
    /\ Track(FALSE, FALSE)
    /\ UNCHANGED notKeyVars

\* keyup ends the physical press.
KeyUp(k) ==
    /\ held[k]
    /\ held' = [held EXCEPT ![k] = FALSE]
    /\ keyup(k)
    /\ UNCHANGED _keyName
    /\ Track(FALSE, k # watch /\ Partner(k) = watch)
    /\ UNCHANGED notKeyVars

\* Mutant of blurKeys: only the released keys are forgotten.
blurKeys_KeepPressed ==
    [k \in Keys |-> IF _keys[k] = "true" THEN "true" ELSE "undefined"]

\* The object the blur listener assigns to _keys: {}.
blurKeys == [k \in Keys |-> "undefined"]

\* window blur: _keys = {}.
Blur ==
    /\ _keys' = blurKeys
    /\ UNCHANGED <<_keyName, held>>
    /\ Track(FALSE, TRUE)
    /\ UNCHANGED notKeyVars

\* The application clears a key: keyboard.space = false, keyboard.enter = false.
AppClearKey(k) ==
    /\ _keys' = [_keys EXCEPT ![k] = "false"]
    /\ UNCHANGED <<_keyName, held>>
    /\ Track(FALSE, FALSE)
    /\ UNCHANGED notKeyVars

\* The keyboard tracker when the script has loaded; the observers at rest.
KeysStart ==
    /\ _keys = [k \in Keys |-> "undefined"]
    /\ _keyName = "undefined"
    /\ held = [k \in Keys |-> FALSE]
    /\ rises = 0
    /\ tainted = FALSE

NextKeys ==
    \/ \E k \in Keys : KeyPress(k)
    \/ \E k \in Keys : KeyRepeat(k)
    \/ \E k \in Keys : KeyUp(k)
    \/ Blur
    \/ \E k \in Settable : AppClearKey(k)

(***************************************************************************)
(* Mouse and touch trackers                                                *)
(***************************************************************************)

\* event.button values of the model: the buttons behind mouse.left and mouse.right.
Buttons == {0, 2}

\* Pointer positions the environment reports, relative to the canvas:
\* <<1, 1>>, <<3, 1>> and <<3, 3>> lie in three different cells of TheGrid,
\* <<3, 3>> lies inside TheHitbox, <<-1, -1>> lies outside both.
MousePoints == {<<1, 1>>, <<3, 1>>, <<3, 3>>}
TouchPoints == MousePoints \cup {<<-1, -1>>}

\* mouse.buttons.some(value => value): holes, null and false are not truthy.
AnyButton == \E b \in Buttons : _buttons[b] = "true"

\* touchscreen.touched (getter)
touched == _touchable /\ Len(_touches) > 0

\* touchscreen.x and touchscreen.y
touchscreen_x == IF Len(_touches) > 0 THEN _touches[1][1] ELSE -1
touchscreen_y == IF Len(_touches) > 0 THEN _touches[1][2] ELSE -1

\* The condition both one-shot queries start with.
PointerActive == touched \/ AnyButton

\* The point the one-shot queries test: the first touch if touched, else the mouse.
PointerX == IF touched THEN touchscreen_x ELSE _mouseX
PointerY == IF touched THEN touchscreen_y ELSE _mouseY

\* Environment: some button is physically down or some touch is on the screen.
PhysActive == (\E b \in Buttons : btnHeld[b]) \/ Len(_touches) > 0

\* The mousedown listener's effect on _buttons.
mousedown(b) ==
    _buttons' = IF _buttons[b] # "false" THEN [_buttons EXCEPT ![b] = "true"] ELSE _buttons

\* The mouseup listener's effect on _buttons.
mouseup(b) ==
    _buttons' = [_buttons EXCEPT ![b] = "null"]

\* Mutant of touchHandler: an event without touches does not re-enable touched.
touchHandler_NoReset(ts) ==
    /\ _touches' = ts
    /\ _touchable' = _touchable

\* _touchHandler for an event whose event.touches is ts.
touchHandler(ts) ==
    /\ _touches' = ts
    /\ _touchable' = IF Len(ts) = 0 THEN TRUE ELSE _touchable

\* The sequence s without its i-th element.
RemoveAt(s, i) == [j \in 1..(Len(s) - 1) |-> IF j < i THEN s[j] ELSE s[j + 1]]

(***************************************************************************)
(* Hitbox                                                                  *)
(***************************************************************************)

\* new Hitbox(2, 2, 2, 2)
TheHitbox == [x |-> 2, y |-> 2, width |-> 2, height |-> 2]

\* Hitbox.contains
contains(h, px, py) ==
    /\ h.x + h.width > px
    /\ h.x <= px
    /\ h.y + h.height > py
    /\ h.y <= py

\* Mutant of clickedResult: the `if (this.clickable)` test dropped.
clickedResult_Unarmed ==
    PointerActive /\ contains(TheHitbox, PointerX, PointerY)

\* The value Hitbox.clicked returns.
clickedResult ==
    PointerActive /\ clickable /\ contains(TheHitbox, PointerX, PointerY)

\* Mutant of clickedArm: the query never disarms (this.clickable = false dropped).
clickedArm_NoDisarm == IF PointerActive THEN clickable ELSE TRUE

\* Mutant of clickedArm: the query never re-arms (this.clickable = true dropped).
clickedArm_NoRearm == IF PointerActive THEN FALSE ELSE clickable

\* The value Hitbox.clicked leaves in this.clickable.
clickedArm == IF PointerActive THEN FALSE ELSE TRUE

\* The scenario observer's next position: "p0" a press is on, not yet queried;
\* "T" its first query gave true; "TF" then false; "rel"/"relQ" all released after
\* (true, false), without/with a query since; "again"/"againQ" a new press began
\* from there; "ok"/"okQ"/"miss"/"missQ" what its first query inside the hitbox gave.
scenNext(isQuery, res) ==
    LET inside == contains(TheHitbox, PointerX, PointerY) IN
    CASE ptrTampered' -> "idle"
      [] ~PhysActive /\ PhysActive' ->
            (CASE scen = "rel" -> "again" [] scen = "relQ" -> "againQ" [] OTHER -> "p0")
      [] PhysActive /\ ~PhysActive' ->
            (IF scen = "TF" THEN "rel" ELSE "idle")
      [] isQuery /\ PhysActive ->
            (CASE scen = "p0" -> IF res THEN "T" ELSE "idle"
               [] scen \in {"T", "ok", "okQ", "TF"} -> IF res THEN "idle" ELSE "TF"
               [] scen = "again" -> IF inside THEN (IF res THEN "ok" ELSE "miss") ELSE "idle"
               [] scen = "againQ" -> IF inside THEN (IF res THEN "okQ" ELSE "missQ") ELSE "idle"
               [] OTHER -> "idle")
      [] isQuery /\ ~PhysActive ->
            (IF scen = "rel" THEN "relQ" ELSE scen)
      [] OTHER -> scen

\* Observer bookkeeping of the Hitbox, after the pointer state's next value is set.
TrackHitbox(isQuery, res, tamper) ==
    /\ observed' = observed
    /\ firstQuery' = firstQuery
    /\ ptrTampered' = (ptrTampered \/ tamper)
    /\ spanTrues' = IF ~PhysActive' THEN 0
                    ELSE Min(MaxCount, spanTrues + (IF isQuery /\ res THEN 1 ELSE 0))
    /\ scen' = scenNext(isQuery, res)

(***************************************************************************)
(* Grid                                                                    *)
(***************************************************************************)

\* new Grid(2, 2, 0, 0, 5, 5): its width and height divide into whole cells.
TheGrid == [rows |-> 2, columns |-> 2, x |-> 0, y |-> 0, width |-> 5, height |-> 5]

\* Grid.cellWidth and Grid.cellHeight as the constructor computes them.
cellWidth(g) == (g.width - g.columns - 1) \div g.columns
cellHeight(g) == (g.height - g.rows - 1) \div g.rows

\* The cells of a grid, each named by <<row, column>>.
Cells(g) == (0..(g.rows - 1)) \X (0..(g.columns - 1))

\* cellFromPoint's undefined.
NoCell == <<-1, -1>>

\* Grid.cellFromPoint: Math.floor of the offset over the stride, then cells[row]?.[column].
cellFromPoint(g, px, py) ==
    LET column == (px - g.x) \div (cellWidth(g) + 1)
        row == (py - g.y) \div (cellHeight(g) + 1)
    IN IF <<row, column>> \in Cells(g) THEN <<row, column>> ELSE NoCell

\* The cell the activated getter looks up.
activatedCell == cellFromPoint(TheGrid, PointerX, PointerY)

\* The value Grid.activated returns.
activatedResult ==
    PointerActive /\ activatable /\ activatedCell # NoCell

\* Mutant of activatedArm: the query never disarms (this.activatable = false dropped).
activatedArm_NoDisarm == IF PointerActive THEN activatable ELSE TRUE

\* The value Grid.activated leaves in this.activatable.
activatedArm == IF PointerActive THEN FALSE ELSE TRUE

\* Mutant of activatedActiveCell: the `if (cell)` test dropped.
activatedActiveCell_NoTest ==
    IF PointerActive /\ activatable THEN activatedCell ELSE _activeCell

\* The value Grid.activated leaves in this._activeCell.
activatedActiveCell ==
    IF PointerActive /\ activatable /\ activatedCell # NoCell
    THEN activatedCell
    ELSE _activeCell

\* Observer bookkeeping of the Grid, after the next pointer state and cell are set.
TrackGrid(isQuery, res) ==
    /\ cycleTrues' = IF ~PointerActive' THEN 0
                     ELSE Min(MaxCount, cycleTrues + (IF isQuery /\ res THEN 1 ELSE 0))
    /\ cycleChanges' = IF ~PointerActive' THEN 0
                       ELSE Min(MaxCount, cycleChanges
                                          + (IF _activeCell' # _activeCell THEN 1 ELSE 0))

\* Everything outside the pointer trackers and their observers.
notPtrVars == <<keyVars, layerVars, spriteVars, updateVars, ioVars, extVars>>

\* No query yet in the press, if one is on; the active cell when it began.
NoQuery == [hitbox |-> "none", grid |-> "none", cell |-> <<0, 0>>, later |-> FALSE]

\* The observer of presses after a step in which query q ("hitbox", "grid" or
\* "none") was made: a press lasts while a button or touch is active; the first
\* query of each kind in it saw the pointer "in" or "out" of the hitbox (of the
\* grid's cells); later tells that a query after an "out" saw the pointer inside.
pressNext(q) ==
    LET inH == contains(TheHitbox, PointerX, PointerY)
        inG == activatedCell # NoCell
    IN  IF ~PointerActive'
        THEN [hitbox |-> "none", grid |-> "none", cell |-> _activeCell', later |-> FALSE]
        ELSE [hitbox |-> IF q = "hitbox" /\ firstQuery.hitbox = "none"
                         THEN (IF inH THEN "in" ELSE "out") ELSE firstQuery.hitbox,
              grid |-> IF q = "grid" /\ firstQuery.grid = "none"
                       THEN (IF inG THEN "in" ELSE "out") ELSE firstQuery.grid,
              cell |-> firstQuery.cell,
              later |-> \/ firstQuery.later
                        \/ q = "hitbox" /\ firstQuery.hitbox = "out" /\ inH
                        \/ q = "grid" /\ firstQuery.grid = "out" /\ inG]

\* A pointer event or application action: the observers of the observed object follow.
PtrObservers(tamper) ==
    /\ UNCHANGED <<clickable, activatable, _activeCell, notPtrVars>>
    /\ IF observed = "hitbox"
       THEN TrackHitbox(FALSE, FALSE, tamper) /\ UNCHANGED <<cycleTrues, cycleChanges>>
       ELSE /\ UNCHANGED <<spanTrues, ptrTampered, scen, observed>>
            /\ IF observed = "press"
               THEN UNCHANGED <<cycleTrues, cycleChanges>> /\ firstQuery' = pressNext("none")
               ELSE TrackGrid(FALSE, FALSE) /\ firstQuery' = firstQuery

\* The same for an event or action that is not about touches.
PtrFrame(tamper) == PtrObservers(tamper) /\ UNCHANGED touchCleared

\* The same for a touch event: one that reports no touch ends the clearing.
TouchFrame ==
    /\ PtrObservers(FALSE)
    /\ touchCleared' = (touchCleared /\ Len(_touches') > 0)

MouseDown(b) ==
    /\ ~btnHeld[b]
    /\ btnHeld' = [btnHeld EXCEPT ![b] = TRUE]
    /\ mousedown(b)
    /\ UNCHANGED <<_mouseX, _mouseY, _mouseOver, _touches, _touchable>>
    /\ PtrFrame(FALSE)

MouseUp(b) ==
    /\ btnHeld[b]
    /\ btnHeld' = [btnHeld EXCEPT ![b] = FALSE]
    /\ mouseup(b)
    /\ UNCHANGED <<_mouseX, _mouseY, _mouseOver, _touches, _touchable>>
    /\ PtrFrame(FALSE)

\* mousemove to point p of the canvas.
MouseMove(p) ==
    /\ <<_mouseX, _mouseY>> # p \/ _mouseOver # "true"
    /\ _mouseX' = p[1]
    /\ _mouseY' = p[2]
    /\ _mouseOver' = "true"
    /\ UNCHANGED <<_buttons, _touches, _touchable, btnHeld>>
    /\ PtrFrame(FALSE)

\* mouseout: the button state is dropped, whatever is physically held.
MouseOut ==
    /\ _mouseOver = "true"
    /\ _mouseOver' = "false"
    /\ _buttons' = [b \in Buttons |-> "undefined"]
    /\ UNCHANGED <<_mouseX, _mouseY, _touches, _touchable, btnHeld>>
    /\ PtrFrame(TRUE)

\* A button released while the pointer is off the canvas: no listener runs.
MouseUpOutside(b) ==
    /\ btnHeld[b] /\ _mouseOver = "false"
    /\ btnHeld' = [btnHeld EXCEPT ![b] = FALSE]
    /\ UNCHANGED <<_buttons, _mouseX, _mouseY, _mouseOver, _touches, _touchable>>
    /\ PtrFrame(FALSE)

TouchStart(p) ==
    /\ Len(_touches) < MaxTouches
    /\ touchHandler(Append(_touches, p))
    /\ UNCHANGED <<_buttons, _mouseX, _mouseY, _mouseOver, btnHeld>>
    /\ TouchFrame

TouchEnd(i) ==
    /\ i \in 1..Len(_touches)
    /\ touchHandler(RemoveAt(_touches, i))
    /\ UNCHANGED <<_buttons, _mouseX, _mouseY, _mouseOver, btnHeld>>
    /\ TouchFrame

TouchMove(i, p) ==
    /\ i \in 1..Len(_touches)
    /\ _touches[i] # p
    /\ touchHandler([_touches EXCEPT ![i] = p])
    /\ UNCHANGED <<_buttons, _mouseX, _mouseY, _mouseOver, btnHeld>>
    /\ TouchFrame

\* mouse.left = false (b = 0), mouse.right = false (b = 2)
AppClearButton(b) ==
    /\ _buttons' = [_buttons EXCEPT ![b] = "false"]
    /\ UNCHANGED <<_mouseX, _mouseY, _mouseOver, _touches, _touchable, btnHeld>>
    /\ PtrFrame(TRUE)

\* touchscreen.touched = false
AppClearTouched ==
    /\ _touchable' = FALSE
    /\ UNCHANGED <<_buttons, _mouseX, _mouseY, _mouseOver, _touches, btnHeld>>
    /\ PtrObservers(TRUE)
    /\ touchCleared' = TRUE

\* The application reads hitbox.clicked.
HitboxClicked ==
    /\ UNCHANGED <<ptrVars, notPtrVars, gridVars>>
    /\ clickable' = clickedArm
    /\ TrackHitbox(TRUE, clickedResult, FALSE)

PtrStart ==
    /\ _buttons = [b \in Buttons |-> "undefined"]
    /\ _mouseX = -1
    /\ _mouseY = -1
    /\ _mouseOver = "undefined"
    /\ _touches = <<>>
    /\ _touchable = TRUE
    /\ touchCleared = FALSE
    /\ btnHeld = [b \in Buttons |-> FALSE]

\* A Hitbox after construction; the observers at rest.
HitboxStart ==
    /\ firstQuery = NoQuery
    /\ clickable = TRUE
    /\ spanTrues = 0
    /\ ptrTampered = FALSE
    /\ scen = "idle"

\* The keys pressed where keyboard and pointer are used together: one with a
\* setter, one of the shift pair, one of the enter pair.
FocusKeys == {"Space", "ShiftLeft", "Enter"}

\* Keyboard and pointer events interleaved with blur.
NextFocus ==
    \/ \E k \in FocusKeys : KeyPress(k)
    \/ \E k \in FocusKeys : KeyUp(k)
    \/ Blur
    \/ \E k \in Settable : AppClearKey(k)
    \/ \E b \in Buttons : MouseDown(b)
    \/ \E b \in Buttons : MouseUp(b)
    \/ \E p \in TouchPoints : TouchStart(p)
    \/ \E i \in 1..MaxTouches : TouchEnd(i)

NextPointer ==
    \/ \E b \in Buttons : MouseDown(b)
    \/ \E b \in Buttons : MouseUp(b)
    \/ \E p \in MousePoints : MouseMove(p)
    \/ MouseOut
    \/ \E b \in Buttons : MouseUpOutside(b)
    \/ \E p \in TouchPoints : TouchStart(p)
    \/ \E i \in 1..MaxTouches : TouchEnd(i)
    \/ \E i \in 1..MaxTouches, p \in TouchPoints : TouchMove(i, p)
    \/ \E b \in Buttons : AppClearButton(b)
    \/ AppClearTouched

\* The application reads hitbox.clicked; the presses are observed.
PressClicked ==
    /\ UNCHANGED <<ptrVars, notPtrVars, gridVars, spanTrues, ptrTampered, scen, observed>>
    /\ clickable' = clickedArm
    /\ firstQuery' = pressNext("hitbox")

\* The application reads grid.activated; the presses are observed.
PressActivated ==
    /\ UNCHANGED <<ptrVars, notPtrVars, clickable, spanTrues, ptrTampered, scen, observed,
                   cycleTrues, cycleChanges>>
    /\ activatable' = activatedArm
    /\ _activeCell' = activatedActiveCell
    /\ firstQuery' = pressNext("grid")

\* The presses are made with the primary button and with one finger.
NextPress ==
    \/ MouseDown(0)
    \/ MouseUp(0)
    \/ \E p \in MousePoints : MouseMove(p)
    \/ MouseOut
    \/ MouseUpOutside(0)
    \/ \E p \in TouchPoints : Len(_touches) = 0 /\ TouchStart(p)
    \/ TouchEnd(1)
    \/ \E p \in TouchPoints : TouchMove(1, p)
    \/ AppClearButton(0)
    \/ AppClearTouched
    \/ PressClicked
    \/ PressActivated

NextHitbox ==
    \/ NextPointer
    \/ HitboxClicked

\* The application reads grid.activated.
GridActivated ==
    /\ UNCHANGED <<ptrVars, notPtrVars, hitboxVars>>
    /\ activatable' = activatedArm
    /\ _activeCell' = activatedActiveCell
    /\ TrackGrid(TRUE, activatedResult)

GridStart ==
    /\ activatable = TRUE
    /\ _activeCell = <<0, 0>>
    /\ cycleTrues = 0
    /\ cycleChanges = 0

NextGrid ==
    \/ NextPointer
    \/ GridActivated

(***************************************************************************)
(* Layer registry                                                          *)
(***************************************************************************)

\* The layer ids the application uses; negative ids are keys like any other.
LayerIds == (-1)..MaxLayerId

\* The sizes the canvas container can compute to.
Dims == 1..MaxDim

\* A key of _canvasLayers/_ctxs that was never set.
NoSurface == [exists |-> FALSE, width |-> 0, height |-> 0, zIndex |-> 0, serial |-> 0, ink |-> 0]

\* How many surfaces have been appended to the canvas container.
SurfaceCount(ls) == Cardinality({i \in LayerIds : ls[i].exists})

\* Mutant of NewSurface: style.zIndex is left at its default.
NewSurface_NoZIndex(id, ls) ==
    [exists |-> TRUE, width |-> W', height |-> H', zIndex |-> 0,
     serial |-> SurfaceCount(ls) + 1, ink |-> 0]

\* The canvas element setLayer creates on the first use of id: W x H, z-index id,
\* appended after the surfaces created before it, blank.
NewSurface(id, ls) ==
    [exists |-> TRUE, width |-> W', height |-> H', zIndex |-> id,
     serial |-> SurfaceCount(ls) + 1, ink |-> 0]

\* Surface a is painted over surface b: the greater z-index wins, and of two
\* surfaces with the same z-index the one later in the container.
paintedOver(a, b) ==
    \/ a.zIndex > b.zIndex
    \/ a.zIndex = b.zIndex /\ a.serial > b.serial

\* Mutant of setLayerSurfaces: a surface is created on every call, not only the first.
setLayerSurfaces_AlwaysCreate(id, ls) == [ls EXCEPT ![id] = NewSurface(id, ls)]

\* Mutant of setLayerSurfaces: the new surface keeps the canvas default size.
setLayerSurfaces_NoSize(id, ls) ==
    IF ~ls[id].exists
    THEN [ls EXCEPT ![id] = [NewSurface(id, ls) EXCEPT !.width = 0, !.height = 0]]
    ELSE ls

\* setLayer's effect on the registry ls (read with the next W and H).
setLayerSurfaces(id, ls) ==
    IF ~ls[id].exists THEN [ls EXCEPT ![id] = NewSurface(id, ls)] ELSE ls

\* Setting width and height of an existing canvas also blanks it.
Resized(sf, w, h) ==
    IF sf.exists THEN [sf EXCEPT !.width = w, !.height = h, !.ink = 0] ELSE sf

\* Mutant of resetCanvasSurfaces: the loop over _canvasLayers dropped.
resetCanvasSurfaces_NoLoop(ls, w, h) == ls

\* resetCanvas's loop: every surface of the registry gets the new size.
resetCanvasSurfaces(ls, w, h) == [i \in LayerIds |-> Resized(ls[i], w, h)]

\* Everything outside the layer registry.
notLayerVars == <<keyVars, ptrVars, hitboxVars, gridVars, spriteVars, updateVars, ioVars,
                 extVars>>

\* setLayer(id)
SetLayer(id) ==
    /\ UNCHANGED <<W, H, viewport, canvasDisplay, resized, notLayerVars>>
    /\ _canvasLayers' = setLayerSurfaces(id, _canvasLayers)
    /\ _layer' = id
    /\ ctx' = id

\* Mutant of ResetCanvas: the closing setLayer(0) dropped.
ResetCanvas_NoSetLayer ==
    /\ canvasDisplay' = ""
    /\ W' = viewport[1]
    /\ H' = viewport[2]
    /\ _canvasLayers' = resetCanvasSurfaces(_canvasLayers, W', H')
    /\ resized' = (resized \/ (SurfaceCount(_canvasLayers) >= 2 /\ <<W', H'>> # <<W, H>>))
    /\ UNCHANGED <<_layer, ctx, viewport, notLayerVars>>

\* resetCanvas()
ResetCanvas ==
    /\ canvasDisplay' = ""
    /\ W' = viewport[1]
    /\ H' = viewport[2]
    /\ _canvasLayers' = setLayerSurfaces(0, resetCanvasSurfaces(_canvasLayers, W', H'))
    /\ _layer' = 0
    /\ ctx' = 0
    /\ resized' = (resized \/ (SurfaceCount(_canvasLayers) >= 2 /\ <<W', H'>> # <<W, H>>))
    /\ UNCHANGED <<viewport, notLayerVars>>

\* A drawing primitive (fill, rectangle, ...) paints on the surface ctx belongs to.
Draw ==
    /\ _canvasLayers[ctx].ink = 0
    /\ _canvasLayers' = [_canvasLayers EXCEPT ![ctx].ink = 1]
    /\ UNCHANGED <<_layer, ctx, W, H, viewport, canvasDisplay, resized, notLayerVars>>

\* element(...) attaching a node under the ui or io panel, or clearIO: the canvas hides.
HideCanvas ==
    /\ canvasDisplay = ""
    /\ canvasDisplay' = "none"
    /\ UNCHANGED <<_canvasLayers, _layer, ctx, W, H, viewport, resized, notLayerVars>>

\* The registry after the script has run with the container at size v: resetCanvas()
\* at load has created layer 0.
LayersStart(v) ==
    /\ viewport = v
    /\ W = v[1]
    /\ H = v[2]
    /\ _canvasLayers = [i \in LayerIds |->
          IF i = 0
          THEN [exists |-> TRUE, width |-> v[1], height |-> v[2], zIndex |-> 0,
                serial |-> 1, ink |-> 0]
          ELSE NoSurface]
    /\ _layer = 0
    /\ ctx = 0
    /\ canvasDisplay = ""
    /\ resized = FALSE

\* The window is resized to v: the resize listener reloads the page while the canvas
\* is shown, and otherwise nothing of the program changes.
WindowResize(v) ==
    /\ v # viewport
    /\ IF canvasDisplay = ""
       THEN /\ viewport' = v
            /\ W' = v[1]
            /\ H' = v[2]
            /\ _canvasLayers' = [i \in LayerIds |->
                  IF i = 0
                  THEN [exists |-> TRUE, width |-> v[1], height |-> v[2], zIndex |-> 0,
                        serial |-> 1, ink |-> 0]
                  ELSE NoSurface]
            /\ _layer' = 0
            /\ ctx' = 0
            /\ canvasDisplay' = ""
            /\ resized' = FALSE
       ELSE /\ viewport' = v
            /\ UNCHANGED <<_canvasLayers, _layer, ctx, W, H, canvasDisplay, resized>>
    /\ UNCHANGED notLayerVars

\* The registry while the script is being evaluated, before its resetCanvas() call:
\* no surface yet; W, H, _layer and ctx are not assigned yet (nothing reads them
\* before resetCanvas assigns them) and stand at 0 here; the container has size v.
ScriptStart(v) ==
    /\ viewport = v
    /\ W = 0
    /\ H = 0
    /\ _canvasLayers = [i \in LayerIds |-> NoSurface]
    /\ _layer = 0
    /\ ctx = 0
    /\ canvasDisplay = ""
    /\ resized = FALSE

\* The script's own resetCanvas() call at load.
LoadResetCanvas ==
    /\ SurfaceCount(_canvasLayers) = 0
    /\ ResetCanvas

NextLayers ==
    \/ \E id \in LayerIds : SetLayer(id)
    \/ ResetCanvas
    \/ Draw
    \/ HideCanvas
    \/ \E v \in Dims \X Dims : WindowResize(v)

\* The load-time call, then the application's calls and the environment's events.
NextReset ==
    \/ LoadResetCanvas
    \/ SurfaceCount(_canvasLayers) >= 1 /\ NextLayers

(***************************************************************************)
(* Sprite                                                                  *)
(***************************************************************************)

\* The frame rates the application sets. The constructor's default of 12 gives a
\* frame duration of 83.33 ms; the model uses rates that divide 1000.
FrameRates == {250, 500}

\* 1000 / value, the frame duration in milliseconds.
FrameDuration(fps) == 1000 \div fps

\* array(rows * columns, i => i): the frames 0 .. n-1 in order.
AllFrames(n) == [i \in 1..n |-> i - 1]

\* The lists assigned to sprite.frames: the first k frames, forwards or backwards.
FrameLists ==
    {AllFrames(k) : k \in 1..MaxFrames} \cup {[i \in 1..k |-> k - i] : k \in 1..MaxFrames}

\* The layer that was active when the sprite was constructed.
SpriteLayer == 0

\* Whether update() finds the remaining time below zero after subtracting dt.
Underflow(dt) == remainingTime - dt < 0

\* Mutant of updateIndex: the last frame is left like any other.
updateIndex_PastEnd(dt) ==
    IF Underflow(dt) THEN index + 1 ELSE index

\* The value update() leaves in this.index.
updateIndex(dt) ==
    IF Underflow(dt)
    THEN IF index >= Len(_frames) - 1
         THEN (IF loop THEN 0 ELSE index)
         ELSE index + 1
    ELSE index

\* Mutant of updateFinished: finished is never set.
updateFinished_Never(dt) == _finished

\* The value update() leaves in this._finished.
updateFinished(dt) ==
    IF Underflow(dt) /\ index >= Len(_frames) - 1 /\ ~loop THEN TRUE ELSE _finished

\* The value update() leaves in this.remainingTime.
updateRemaining(dt) ==
    IF Underflow(dt)
    THEN remainingTime - dt + FrameDuration(_framesPerSecond)
    ELSE remainingTime - dt

\* Where the observer of elapsed time saturates: above every n * duration.
ElapsedCap == MaxFrames * FrameDuration(250) + 1

\* Everything outside the sprite, apart from the surfaces it draws on.
notSpriteVars == <<keyVars, ptrVars, hitboxVars, gridVars, updateVars, ioVars, extVars,
                   _layer, ctx, W, H, viewport, canvasDisplay, resized>>

\* The observers after a change of configuration: they follow the first one only.
Unsteady ==
    /\ steady' = FALSE
    /\ elapsed' = 0
    /\ underflows' = 0
    /\ smallSteps' = TRUE

\* A tick of dt milliseconds in which the update callback calls sprite.update():
\* the frame advances, then draw() paints it on the sprite's layer and restores the
\* active layer.
SpriteUpdate(dt) ==
    /\ remainingTime - dt >= -MaxLag
    /\ DT' = dt
    /\ index' = updateIndex(dt)
    /\ _finished' = updateFinished(dt)
    /\ remainingTime' = updateRemaining(dt)
    /\ _canvasLayers' = [_canvasLayers EXCEPT ![SpriteLayer].ink = 1]
    /\ UNCHANGED <<_frames, _framesPerSecond, loop, steady, notSpriteVars>>
    /\ IF steady
       THEN /\ elapsed' = Min(ElapsedCap, elapsed + dt)
            /\ underflows' = Min(MaxFrames + 1, underflows + (IF Underflow(dt) THEN 1 ELSE 0))
            /\ smallSteps' = (smallSteps /\ dt <= FrameDuration(_framesPerSecond))
       ELSE UNCHANGED <<elapsed, underflows, smallSteps>>

\* sprite.loop = value
SetLoop(value) ==
    /\ loop # value
    /\ loop' = value
    /\ Unsteady
    /\ UNCHANGED <<DT, index, remainingTime, _frames, _finished, _framesPerSecond,
                   _canvasLayers, notSpriteVars>>

\* sprite.frames = value
SetFrames(value) ==
    /\ index' = IF Len(value) # Len(_frames)
                   \/ \E i \in 1..Len(value) : value[i] # _frames[i]
                THEN 0 ELSE index
    /\ _frames' = value
    /\ Unsteady
    /\ UNCHANGED <<DT, remainingTime, _finished, _framesPerSecond, loop,
                   _canvasLayers, notSpriteVars>>

\* sprite.framesPerSecond = value
SetFramesPerSecond(value) ==
    /\ _framesPerSecond' = value
    /\ remainingTime' = FrameDuration(value)
    /\ Unsteady
    /\ UNCHANGED <<DT, index, _frames, _finished, loop, _canvasLayers, notSpriteVars>>

\* new Sprite(sheet, rows, columns) with rows * columns = n, then loop and
\* framesPerSecond set once; no tick has read DT yet.
SpriteStart(n, fps, lp) ==
    /\ DT = 0
    /\ index = 0
    /\ remainingTime = FrameDuration(fps)
    /\ _frames = AllFrames(n)
    /\ _finished = FALSE
    /\ _framesPerSecond = fps
    /\ loop = lp
    /\ elapsed = 0
    /\ underflows = 0
    /\ smallSteps = TRUE
    /\ steady = TRUE

NextSprite ==
    \/ \E dt \in 0..MaxDT : SpriteUpdate(dt)
    \/ \E b \in BOOLEAN : SetLoop(b)
    \/ \E fl \in FrameLists : SetFrames(fl)
    \/ \E f \in FrameRates : SetFramesPerSecond(f)

(***************************************************************************)
(* Update loop                                                             *)
(***************************************************************************)

\* Update callbacks of the application; "noop" is the default `() => { }`.
UserCallbacks == {"f", "g"}
Callbacks == UserCallbacks \cup {"noop"}

\* Mutant of handlerCallee: the handler keeps calling the callback it called before.
handlerCallee_Previous == IF calledWith = "none" THEN _update ELSE calledWith

\* The function _updateHandler calls: _update as it is when the handler runs.
handlerCallee == _update

\* Mutant of setUpdateRunning: the new callback takes over the running tick.
setUpdateRunning_Immediate(update) == update

\* What executes after a setUpdate(update) made inside a callback: the caller goes on.
setUpdateRunning(update) == running

\* Mutant of throwScheduled: the request is made in a finally clause.
throwScheduled_Finally == TRUE

\* Whether a refresh is requested when `_update()` throws: as before the call, the
\* requestAnimationFrame after it is not reached.
throwScheduled == scheduled

\* Everything outside the update loop, apart from DT.
notUpdateVars == <<keyVars, ptrVars, hitboxVars, gridVars, layerVars, ioVars, extVars,
                   index, remainingTime, _frames, _finished, _framesPerSecond, loop,
                   elapsed, underflows, smallSteps, steady>>

\* A display refresh dt ms after the previous one with the handler scheduled:
\* _updateHandler sets DT and _timestamp0 and calls _update.
Refresh(dt) ==
    /\ running = "none" /\ scheduled
    /\ DT' = IF _timestamp0 = "undefined" THEN 0 ELSE dt
    /\ _timestamp0' = "set"
    /\ scheduled' = FALSE
    /\ running' = handlerCallee
    /\ calls' = 1
    /\ atStart' = _update
    /\ calledWith' = handlerCallee
    /\ setDuring' = FALSE
    /\ lastRefresh' = "ticked"
    /\ UNCHANGED <<_update, afterThrow, notUpdateVars>>

\* A display refresh with no handler scheduled: nothing of the program runs.
RefreshUnscheduled ==
    /\ running = "none" /\ ~scheduled
    /\ lastRefresh # "missed"
    /\ calls' = 0
    /\ atStart' = _update
    /\ calledWith' = "none"
    /\ setDuring' = FALSE
    /\ lastRefresh' = "missed"
    /\ afterThrow' = IF afterThrow = "installed" THEN "passed" ELSE afterThrow
    /\ UNCHANGED <<DT, _update, _timestamp0, scheduled, running, notUpdateVars>>

\* The running callback calls setUpdate(update), or setUpdate() for "noop".
CallbackSetUpdate(update) ==
    /\ running \in UserCallbacks
    /\ _update' = update
    /\ running' = setUpdateRunning(update)
    /\ calls' = IF running' = running THEN calls ELSE Min(MaxCount, calls + 1)
    /\ setDuring' = TRUE
    /\ UNCHANGED <<DT, _timestamp0, scheduled, atStart, calledWith, lastRefresh, afterThrow,
                   notUpdateVars>>

\* The running callback returns: the handler requests the next animation frame.
CallbackReturn ==
    /\ running # "none"
    /\ running' = "none"
    /\ scheduled' = TRUE
    /\ UNCHANGED <<DT, _update, _timestamp0, calls, atStart, calledWith, setDuring,
                   lastRefresh, afterThrow, notUpdateVars>>

\* The running callback throws: the handler is left before requestAnimationFrame.
CallbackThrow ==
    /\ running \in UserCallbacks
    /\ running' = "none"
    /\ scheduled' = throwScheduled
    /\ afterThrow' = "threw"
    /\ UNCHANGED <<DT, _update, _timestamp0, calls, atStart, calledWith,
                   setDuring, lastRefresh, notUpdateVars>>

\* setUpdate(update) called between ticks (top-level code, an event handler).
SetUpdate(update) ==
    /\ running = "none"
    /\ _update # update
    /\ _update' = update
    /\ afterThrow' = IF afterThrow = "threw" /\ update \in UserCallbacks
                     THEN "installed" ELSE afterThrow
    /\ UNCHANGED <<DT, _timestamp0, scheduled, running, calls, atStart, calledWith,
                   setDuring, lastRefresh, notUpdateVars>>

\* The loop after the script has run: the handler is requested, no refresh yet.
UpdateStart ==
    /\ _update = "noop"
    /\ _timestamp0 = "undefined"
    /\ scheduled = TRUE
    /\ running = "none"
    /\ calls = 0
    /\ atStart = "noop"
    /\ calledWith = "none"
    /\ setDuring = FALSE
    /\ lastRefresh = "none"
    /\ afterThrow = "no"

NextUpdate ==
    \/ \E dt \in 1..MaxDT : Refresh(dt)
    \/ RefreshUnscheduled
    \/ \E c \in Callbacks : CallbackSetUpdate(c)
    \/ CallbackReturn
    \/ CallbackThrow
    \/ \E c \in Callbacks : SetUpdate(c)

(***************************************************************************)
(* Text input and output                                                   *)
(***************************************************************************)

\* Strings are sequences of characters; NL is the line feed.
NL == "\n"
ParamChars == {"a", NL}
EntryTexts == {<<>>, <<"b">>}
WriteValues == {<<"x">>}
WriteEnds == {<<>>, <<" ">>, <<NL>>}

RECURSIVE SeqsUpTo(_, _)
SeqsUpTo(S, n) ==
    IF n = 0 THEN {<<>>}
    ELSE LET shorter == SeqsUpTo(S, n - 1)
         IN  shorter \cup {Append(t, c) : t \in shorter, c \in S}

\* String.prototype.split("\n"): the pieces between line feeds, empty ones included.
RECURSIVE split(_)
split(str) ==
    IF \A i \in 1..Len(str) : str[i] # NL
    THEN <<str>>
    ELSE LET i == CHOOSE n \in 1..Len(str) :
                      str[n] = NL /\ \A m \in 1..(n - 1) : str[m] # NL
         IN  <<SubSeq(str, 1, i - 1)>> \o split(SubSeq(str, i + 1, Len(str)))

\* Everything outside text IO, apart from canvas.style.display.
notIOVars == <<keyVars, ptrVars, hitboxVars, gridVars, spriteVars, updateVars, extVars,
               _canvasLayers, _layer, ctx, W, H, viewport, resized>>

\* `_inputLines[_inputLineIndex] != null`
hasInputLine == _inputLineIndex < Len(_inputLines)

\* `_inputLines[_inputLineIndex]`, where there is one.
currentInputLine == _inputLines[_inputLineIndex + 1]

\* Mutant of readNextIndex: a seeded read leaves the index where it is.
readNextIndex_Stuck == _inputLineIndex

\* `_inputLineIndex++` of a seeded read.
readNextIndex == _inputLineIndex + 1

\* Mutant of readOutput: read leaves _output$ as it is.
readOutput_Kept == _output

\* `_output$ = null` in read.
readOutput == 0

\* The observer of written text after a read() or clearIO().
writtenBefore == [since |-> <<>>, before |-> written.before \/ written.since # <<>>]

\* element(tag, io): the new child goes after everything already in the panel.
ioAppend(child) == Append(ioPanel, child)

InputRegion(j) == [kind |-> "input", ref |-> j, text |-> <<>>]
OutputRegion == [kind |-> "output", ref |-> 0, text |-> <<>>]
OtherChild == [kind |-> "other", ref |-> 0, text |-> <<>>]

\* The read() call: a prompt region, then a seeded line or an editable entry.
Read ==
    /\ Len(reads) < MaxReads /\ Len(ioPanel) < MaxPanel
    /\ ioPanel' = ioAppend(InputRegion(Len(reads) + 1))
    /\ canvasDisplay' = "none"
    /\ _output' = readOutput
    /\ lastWritten' = 0
    /\ written' = writtenBefore
    /\ IF hasInputLine
       THEN /\ reads' = Append(reads, [seeded |-> TRUE, resolved |-> TRUE,
                                       value |-> currentInputLine,
                                       text |-> currentInputLine, editable |-> FALSE,
                                       attached |-> TRUE, committed |-> FALSE])
            /\ _inputLineIndex' = readNextIndex
       ELSE /\ reads' = Append(reads, [seeded |-> FALSE, resolved |-> FALSE,
                                       value |-> <<>>, text |-> <<>>,
                                       editable |-> TRUE, attached |-> TRUE,
                                       committed |-> FALSE])
            /\ UNCHANGED _inputLineIndex
    /\ UNCHANGED <<iParam, _inputLines, notIOVars>>

\* The user edits the text of an editable entry that is still in the document.
TypeText(j, t) ==
    /\ j \in 1..Len(reads)
    /\ reads[j].editable /\ reads[j].attached
    /\ reads[j].text # t
    /\ reads' = [reads EXCEPT ![j].text = t]
    /\ UNCHANGED <<iParam, _inputLines, _inputLineIndex, _output, ioPanel, lastWritten, written,
                   canvasDisplay, notIOVars>>

\* keydown with code "Enter" on an editable entry (value$.onkeydown).
EnterKey(j) ==
    /\ j \in 1..Len(reads)
    /\ reads[j].editable /\ reads[j].attached
    /\ _inputLines' = IF hasInputLine
                      THEN [_inputLines EXCEPT ![_inputLineIndex + 1] = reads[j].text]
                      ELSE Append(_inputLines, reads[j].text)
    /\ reads' = [reads EXCEPT ![j].editable = FALSE,
                              ![j].resolved = TRUE,
                              ![j].value = _inputLines'[_inputLineIndex + 1],
                              ![j].committed = TRUE]
    /\ _inputLineIndex' = _inputLineIndex + 1
    /\ UNCHANGED <<iParam, _output, ioPanel, lastWritten, written, canvasDisplay, notIOVars>>

\* write(value, end), or write() when hasArgs is FALSE.
Write(hasArgs, value, end) ==
    LET added == IF hasArgs THEN value \o end ELSE <<NL>>
        region == IF _output = 0 THEN Len(ioPanel) + 1 ELSE _output
        panel == IF _output = 0 THEN ioAppend(OutputRegion) ELSE ioPanel
    IN  /\ _output = 0 => Len(ioPanel) < MaxPanel
        /\ Len(panel[region].text) + Len(added) <= MaxText
        /\ ioPanel' = [panel EXCEPT ![region].text = @ \o added]
        /\ _output' = region
        /\ canvasDisplay' = IF _output = 0 THEN "none" ELSE canvasDisplay
        /\ lastWritten' = region
        /\ written' = [written EXCEPT !.since = @ \o added]
        /\ UNCHANGED <<iParam, _inputLines, _inputLineIndex, reads, notIOVars>>

\* clearIO(): the panel is emptied; entries of pending reads leave the document.
ClearIO ==
    /\ ioPanel # <<>>
    /\ ioPanel' = <<>>
    /\ _output' = 0
    /\ canvasDisplay' = "none"
    /\ reads' = [j \in 1..Len(reads) |-> [reads[j] EXCEPT !.attached = FALSE]]
    /\ lastWritten' = 0
    /\ written' = writtenBefore
    /\ UNCHANGED <<iParam, _inputLines, _inputLineIndex, notIOVars>>

\* element(tag, io) called by the program: another child of the panel.
IoElement ==
    /\ Len(ioPanel) < MaxPanel
    /\ ioPanel' = ioAppend(OtherChild)
    /\ canvasDisplay' = "none"
    /\ UNCHANGED <<iParam, _inputLines, _inputLineIndex, _output, reads, lastWritten, written,
                   notIOVars>>

\* Text IO after the script has run with the i parameter p (absent or a string).
IOStart(p) ==
    /\ iParam = p
    /\ _inputLines = IF p.present THEN split(p.text) ELSE <<>>
    /\ _inputLineIndex = 0
    /\ _output = 0
    /\ ioPanel = <<>>
    /\ reads = <<>>
    /\ lastWritten = 0
    /\ written = [since |-> <<>>, before |-> FALSE]

IParams ==
    {[present |-> FALSE, text |-> <<>>]}
        \cup {[present |-> TRUE, text |-> t] : t \in SeqsUpTo(ParamChars, MaxParam)}

NextIO ==
    \/ Read
    \/ \E j \in 1..MaxReads, t \in EntryTexts : TypeText(j, t)
    \/ \E j \in 1..MaxReads : EnterKey(j)
    \/ \E v \in WriteValues, e \in WriteEnds : Write(TRUE, v, e)
    \/ Write(FALSE, <<>>, <<>>)
    \/ ClearIO
    \/ IoElement

(***************************************************************************)
(* Replay: the load listener's comparison with the o parameter             *)
(***************************************************************************)

ReplayChars == {"a", " ", NL}

\* Characters String.prototype.trimEnd removes.
isSpace(c) == c \in {" ", NL, "\t"}

\* String.prototype.trimEnd
RECURSIVE trimEnd(_)
trimEnd(str) ==
    IF str = <<>> \/ ~isSpace(str[Len(str)])
    THEN str
    ELSE trimEnd(SubSeq(str, 1, Len(str) - 1))

\* Array.prototype.join("\n")
RECURSIVE join(_)
join(lines) ==
    IF lines = <<>> THEN <<>>
    ELSE IF Len(lines) = 1 THEN lines[1]
    ELSE lines[1] \o <<NL>> \o join(Tail(lines))

\* Mutant of replayOutput: the text is compared as written.
replayOutput_Raw(text) == text

\* Mutant of replayRaw: the text of every output region of the panel.
RECURSIVE replayRaw_AllRegions(_)
replayRaw_AllRegions(panel) ==
    IF panel = <<>> THEN <<>>
    ELSE (IF Head(panel).kind = "output" THEN Head(panel).text ELSE <<>>)
             \o replayRaw_AllRegions(Tail(panel))

\* `_output$!.textContent!`
replayRaw(panel) == panel[_output].text

\* `text.split("\n").map(line => line.trimEnd()).join("\n").trimEnd()`
replayOutput(text) ==
    LET lines == split(text)
    IN  trimEnd(join([i \in 1..Len(lines) |-> trimEnd(lines[i])]))

\* `str[k]` of JavaScript (k from 0): the character, or undefined past the end.
charAt(str, k) == IF k < Len(str) THEN str[k + 1] ELSE "undefined"

\* `while (output[offset] == oValue[offset]) offset++`, from offset k on; -1 stands
\* for a loop that never ends (both strings exhausted and still equal).
RECURSIVE replayScan(_, _, _)
replayScan(output, oValue, k) ==
    IF k > Len(output) /\ k > Len(oValue) THEN -1
    ELSE IF charAt(output, k) = charAt(oValue, k)
         THEN replayScan(output, oValue, k + 1)
         ELSE k

replayOffset(output, oValue) == replayScan(output, oValue, 0)

\* `" ".repeat(n)`
spaces(n) == [i \in 1..n |-> " "]

\* String.prototype.slice(from, to) for 0 <= from, to.
slice(str, from, to) == SubSeq(str, from + 1, IF to > Len(str) THEN Len(str) ELSE to)

NoResp == [state |-> "none", raw |-> <<>>, echo |-> FALSE, offset |-> 0,
           correct |-> <<>>, incorrect |-> <<>>]

\* The program so far is: read one seeded line, write it back.
EchoProgram ==
    /\ Len(reads) = 1 /\ reads[1].seeded
    /\ ioPanel = <<InputRegion(1), [OutputRegion EXCEPT !.text = reads[1].value \o <<NL>>]>>
    /\ _output = 2

\* What resp$ shows after the comparison of the current region with oValue.
replayReport(oValue) ==
    LET raw == replayRaw(ioPanel)
        output == replayOutput(raw)
        offset == replayOffset(output, oValue)
    IN  IF output = oValue
        THEN [state |-> "match", raw |-> raw, echo |-> EchoProgram, offset |-> 0,
              correct |-> output, incorrect |-> <<>>]
        ELSE [state |-> IF offset = -1 THEN "hang" ELSE "differ",
              raw |-> raw, echo |-> EchoProgram, offset |-> offset,
              correct |-> slice(oValue, 0, offset),
              incorrect |-> slice(oValue, offset, Len(oValue))
                              \o spaces(IF Len(output) > Len(oValue)
                                        THEN Len(output) - Len(oValue) ELSE 0)]

\* Everything the load listener leaves alone.
notReplayVars == <<keyVars, ptrVars, hitboxVars, gridVars, spriteVars, updateVars,
                   _canvasLayers, _layer, ctx, W, H, viewport, resized,
                   iParam, _inputLines, _inputLineIndex, _output, reads, lastWritten, written,
                   cellVars, turtleVars, fetchVars, consoleVars, elementVars, utilVars, utilVars>>

\* The window's load event with the o parameter present: an hr and a p are added
\* to the panel; `_output$!.textContent` throws when no region is current.
Load ==
    /\ resp.state = "none" /\ oParam.present
    /\ ioPanel' = ioPanel \o <<OtherChild, OtherChild>>
    /\ canvasDisplay' = "none"
    /\ resp' = IF _output = 0
               THEN [NoResp EXCEPT !.state = "error"]
               ELSE replayReport(oParam.text)
    /\ UNCHANGED <<oParam, notReplayVars>>

\* write(c, "") of the program under replay.
ReplayWrite(c) == resp.state = "none" /\ Write(TRUE, <<c>>, <<>>)

\* write(line) with the line the latest read() resolved with.
ReplayEcho ==
    /\ resp.state = "none"
    /\ reads # <<>> /\ reads[Len(reads)].resolved
    /\ Write(TRUE, reads[Len(reads)].value, <<NL>>)

ReplayRead == resp.state = "none" /\ Read

\* clearIO() of the program under replay.
ReplayClearIO == resp.state = "none" /\ ClearIO

ReplayStart(o) ==
    /\ oParam = o
    /\ resp = NoResp

ReplayParams(n) ==
    {[present |-> FALSE, text |-> <<>>]}
        \cup {[present |-> TRUE, text |-> t] : t \in SeqsUpTo(ReplayChars, n)}

NextReplay ==
    \/ ReplayRead
    \/ \E c \in ReplayChars : ReplayWrite(c)
    \/ ReplayEcho
    \/ Load

\* The same with clearIO() among the calls of the program.
NextRegion ==
    \/ NextReplay
    \/ ReplayClearIO

(***************************************************************************)
(* Grid geometry and cell contents                                         *)
(***************************************************************************)

\* A horizontal measure q of a grid is held as the integer q * columns, a vertical
\* one as q * rows: cellWidth = (width - columns - 1) / columns is held as its
\* numerator, and so on, so that the divisions of the constructor are exact.

\* Mutant of cellWidthNum: the gutter before the first column is forgotten.
cellWidthNum_NoEdge(columns, width) == width - columns

\* `(width - columns - 1) / columns`, times columns.
cellWidthNum(columns, width) == width - columns - 1

\* `(height - rows - 1) / rows`, times rows.
cellHeightNum(rows, height) == height - rows - 1

\* Mutant of cellXNum: the column starts on the gutter line.
cellXNum_OnLine(columns, x, width, j) == columns * x + j * (cellWidthNum(columns, width) + columns)

\* `x + j * (this.cellWidth + 1) + 1`, times columns.
cellXNum(columns, x, width, j) ==
    columns * x + j * (cellWidthNum(columns, width) + columns) + columns

\* `y + i * (this.cellHeight + 1) + 1`, times rows.
cellYNum(rows, y, height, i) ==
    rows * y + i * (cellHeightNum(rows, height) + rows) + rows

GridSizes == 1..MaxGridN
GridOrigins == {0, 1}
GridExtents == 0..MaxGridExtent

CellColors == {"null", "red"}
CellImages == {"null", "image"}
CellTexts == {"null", "text"}
CellCustoms == {"null", "draw"}

\* The private fields of a new Cell.
NewCellProps(textColor) ==
    [color |-> "null", image |-> "null", text |-> "null", custom |-> "null",
     textColor |-> textColor]

\* The layer a grid and its cells are drawn on: _layer when they were constructed.
GridLayer == 0

\* Cell.draw and Grid.draw: something is drawn on the grid's layer, and the active
\* layer is set back.
drawnOn(layer) == [_canvasLayers EXCEPT ![layer].ink = 1]

notCellVars == <<keyVars, ptrVars, hitboxVars, gridVars, spriteVars, updateVars, ioVars,
                 replayVars, turtleVars, fetchVars, consoleVars, elementVars, utilVars,
                 _layer, ctx, W, H, viewport, canvasDisplay, resized>>

\* The fields and cells `new Grid(rows, columns, x, y, width, height)` leaves.
Constructed(rows, columns, x, y, width, height) ==
    /\ grid' = [rows |-> rows, columns |-> columns, x |-> x, y |-> y,
                width |-> width, height |-> height,
                cellWidthNum |-> cellWidthNum(columns, width),
                cellHeightNum |-> cellHeightNum(rows, height)]
    /\ cells' = [rc \in (0..(rows - 1)) \X (0..(columns - 1)) |->
                   [row |-> rc[1], column |-> rc[2],
                    xNum |-> cellXNum(columns, x, width, rc[2]),
                    yNum |-> cellYNum(rows, y, height, rc[1])]]
    /\ cellProps' = [rc \in (0..(rows - 1)) \X (0..(columns - 1)) |->
                       NewCellProps("black")]

\* No Grid has been constructed.
NoGrid ==
    /\ grid = [rows |-> 0, columns |-> 0, x |-> 0, y |-> 0, width |-> 0, height |-> 0,
               cellWidthNum |-> 0, cellHeightNum |-> 0]
    /\ cells = [rc \in {} |-> 0]
    /\ cellProps = [rc \in {} |-> 0]

\* new Grid(rows, columns, x, y, width, height), the first of the program.
GridConstruct(rows, columns, x, y, width, height) ==
    /\ grid.rows = 0
    /\ Constructed(rows, columns, x, y, width, height)
    /\ _canvasLayers' = drawnOn(GridLayer)
    /\ UNCHANGED notCellVars

\* Mutant of SetCellColor: the color is shared by all cells of the grid.
SetCellColor_Shared(rc, value) ==
    /\ rc \in DOMAIN cellProps
    /\ cellProps[rc].color # value
    /\ cellProps' = [other \in DOMAIN cellProps |-> [cellProps[other] EXCEPT !.color = value]]
    /\ _canvasLayers' = drawnOn(GridLayer)
    /\ UNCHANGED <<grid, cells, notCellVars>>

\* grid.cell(row, column).color = value
SetCellColor(rc, value) ==
    /\ rc \in DOMAIN cellProps
    /\ cellProps[rc].color # value
    /\ cellProps' = [cellProps EXCEPT ![rc].color = value]
    /\ _canvasLayers' = drawnOn(GridLayer)
    /\ UNCHANGED <<grid, cells, notCellVars>>

\* grid.cell(row, column).image = value
SetCellImage(rc, value) ==
    /\ rc \in DOMAIN cellProps
    /\ cellProps[rc].image # value
    /\ cellProps' = [cellProps EXCEPT ![rc].image = value]
    /\ _canvasLayers' = drawnOn(GridLayer)
    /\ UNCHANGED <<grid, cells, notCellVars>>

\* grid.cell(row, column).text = value (a string or null)
SetCellText(rc, value) ==
    /\ rc \in DOMAIN cellProps
    /\ cellProps[rc].text # value
    /\ cellProps' = [cellProps EXCEPT ![rc].text = value]
    /\ _canvasLayers' = drawnOn(GridLayer)
    /\ UNCHANGED <<grid, cells, notCellVars>>

\* grid.cell(row, column).custom = value (a drawing function or null)
SetCellCustom(rc, value) ==
    /\ rc \in DOMAIN cellProps
    /\ cellProps[rc].custom # value
    /\ cellProps' = [cellProps EXCEPT ![rc].custom = value]
    /\ _canvasLayers' = drawnOn(GridLayer)
    /\ UNCHANGED <<grid, cells, notCellVars>>

\* The state a constructed grid is in, seen from the state before construction.
CellsStart(rows, columns, x, y, width, height) ==
    /\ grid = [rows |-> rows, columns |-> columns, x |-> x, y |-> y,
               width |-> width, height |-> height,
               cellWidthNum |-> cellWidthNum(columns, width),
               cellHeightNum |-> cellHeightNum(rows, height)]
    /\ cells = [rc \in (0..(rows - 1)) \X (0..(columns - 1)) |->
                  [row |-> rc[1], column |-> rc[2],
                   xNum |-> cellXNum(columns, x, width, rc[2]),
                   yNum |-> cellYNum(rows, y, height, rc[1])]]
    /\ cellProps = [rc \in (0..(rows - 1)) \X (0..(columns - 1)) |->
                      NewCellProps("black")]

NextGeometry ==
    \E rows, columns \in GridSizes, x, y \in GridOrigins, width, height \in GridExtents :
        GridConstruct(rows, columns, x, y, width, height)

NextCells ==
    \/ \E rc \in DOMAIN cellProps, v \in CellColors : SetCellColor(rc, v)
    \/ \E rc \in DOMAIN cellProps, v \in CellImages : SetCellImage(rc, v)
    \/ \E rc \in DOMAIN cellProps, v \in CellTexts : SetCellText(rc, v)
    \/ \E rc \in DOMAIN cellProps, v \in CellCustoms : SetCellCustom(rc, v)

(***************************************************************************)
(* Turtle                                                                  *)
(***************************************************************************)

\* Headings are multiples of 90 degrees, for which cos and sin are integers.
TurnAngles == {90, 180}
MoveLengths == {1, 2}
Delays == 1..MaxDelay

\* Math.cos(radians(heading)) and Math.sin(radians(heading))
cosDeg(heading) == CASE heading % 360 = 0 -> 1 [] heading % 360 = 180 -> -1 [] OTHER -> 0
sinDeg(heading) == CASE heading % 360 = 90 -> 1 [] heading % 360 = 270 -> -1 [] OTHER -> 0

\* The layer the turtle draws on: _layer when it was constructed.
TurtleLayer == 0

notTurtleVars == <<keyVars, ptrVars, hitboxVars, gridVars, spriteVars, updateVars, ioVars,
                   replayVars, cellVars, fetchVars, consoleVars, elementVars, utilVars, _layer,
                   ctx, W, H, viewport, canvasDisplay, resized>>

\* The caller awaits each command: the next one is called when the promise of the
\* one before is settled.
Awaited == IF commands = <<>> THEN TRUE ELSE commands[Len(commands)].settled

\* The record of a command called now: `awaitsSleep` tells whether the promise the
\* command returns waits for the timer that sleep(this.delay) sets.
Command(kind, awaitsSleep) ==
    [kind |-> kind, calledAt |-> now, due |-> now + turtleDelay,
     settled |-> ~awaitsSleep, settledAt |-> now,
     x |-> turtleX', y |-> turtleY', heading |-> turtleHeading']

\* The synchronous part of forward(length): the position moves along the heading.
forwardMoves(length) ==
    /\ turtleX' = turtleX + cosDeg(turtleHeading) * length
    /\ turtleY' = turtleY + sinDeg(turtleHeading) * length
    /\ UNCHANGED turtleHeading
    /\ _canvasLayers' = drawnOn(TurtleLayer)

\* The synchronous part of right(degAngle).
rightTurns(degAngle) ==
    /\ turtleHeading' = turtleHeading + degAngle
    /\ UNCHANGED <<turtleX, turtleY, _canvasLayers>>

\* await turtle.forward(length): the promise waits for `await sleep(this.delay)`.
Forward(length) ==
    /\ Awaited /\ Len(commands) < MaxCommands
    /\ forwardMoves(length)
    /\ commands' = Append(commands, Command("forward", TRUE))
    /\ UNCHANGED <<turtleDelay, now, notTurtleVars>>

\* await turtle.backward(length): forward(-length) is called and not awaited, so the
\* promise of backward is settled as soon as forward has returned its own.
Backward(length) ==
    /\ Awaited /\ Len(commands) < MaxCommands
    /\ forwardMoves(-length)
    /\ commands' = Append(commands, Command("backward", FALSE))
    /\ UNCHANGED <<turtleDelay, now, notTurtleVars>>

\* await turtle.right(degAngle)
Right(degAngle) ==
    /\ Awaited /\ Len(commands) < MaxCommands
    /\ rightTurns(degAngle)
    /\ commands' = Append(commands, Command("right", TRUE))
    /\ UNCHANGED <<turtleDelay, now, notTurtleVars>>

\* await turtle.left(degAngle): `await this.right(-degAngle)`.
Left(degAngle) ==
    /\ Awaited /\ Len(commands) < MaxCommands
    /\ rightTurns(-degAngle)
    /\ commands' = Append(commands, Command("left", TRUE))
    /\ UNCHANGED <<turtleDelay, now, notTurtleVars>>

\* The timer of command i fires, at its due time or later, and settles the promise
\* that waits for it.
TimerFires(i) ==
    /\ i \in 1..Len(commands)
    /\ ~commands[i].settled /\ now >= commands[i].due
    /\ commands' = [commands EXCEPT ![i].settled = TRUE, ![i].settledAt = now]
    /\ UNCHANGED <<turtleX, turtleY, turtleHeading, turtleDelay, now, _canvasLayers,
                   notTurtleVars>>

\* A millisecond passes.
TimePasses ==
    /\ now < MaxTime
    /\ now' = now + 1
    /\ UNCHANGED <<turtleX, turtleY, turtleHeading, turtleDelay, commands, _canvasLayers,
                   notTurtleVars>>

\* turtle.delay = value
SetDelay(value) ==
    /\ Awaited /\ turtleDelay # value
    /\ turtleDelay' = value
    /\ UNCHANGED <<turtleX, turtleY, turtleHeading, now, commands, _canvasLayers,
                   notTurtleVars>>

\* new Turtle(0, 0, 0) with the delay set to d.
TurtleStart(d) ==
    /\ turtleX = 0 /\ turtleY = 0 /\ turtleHeading = 0
    /\ turtleDelay = d
    /\ now = 0
    /\ commands = <<>>

NextTurtle ==
    \/ \E length \in MoveLengths : Forward(length)
    \/ \E length \in MoveLengths : Backward(length)
    \/ \E a \in TurnAngles : Right(a)
    \/ \E a \in TurnAngles : Left(a)
    \/ \E i \in 1..MaxCommands : TimerFires(i)
    \/ TimePasses
    \/ \E d \in Delays : SetDelay(d)

(***************************************************************************)
(* fetchImages                                                             *)
(***************************************************************************)

ImagePaths == {"a.png", "b.png"}

\* The Image created for the i-th path.
ImageOf(i) == [src |-> paths[i], index |-> i]

NoImage == [src |-> "", index |-> 0]

\* `'${path}' can not be loaded`, held as the path it quotes.
LoadError(path) == path

\* Mutant of allFulfilled: the values are collected in the order of fulfilment.
allFulfilled_ByArrival(i, image) ==
    LET count == Cardinality({k \in DOMAIN allValues : allValues[k] # NoImage})
    IN  [allValues EXCEPT ![count + 1] = image]

\* Promise.all: the value of the i-th promise is stored at index i.
allFulfilled(i, image) == [allValues EXCEPT ![i] = image]

\* Promise.all: what the combined promise is once allValues is as given.
allSettled(values) ==
    IF fetched.state = "pending" /\ \A k \in DOMAIN values : values[k] # NoImage
    THEN [state |-> "resolved", value |-> values, message |-> ""]
    ELSE fetched

\* Promise.all: what the combined promise is once a promise is rejected with reason.
allRejected(reason) ==
    IF fetched.state = "pending"
    THEN [state |-> "rejected", value |-> <<>>, message |-> reason]
    ELSE fetched

notFetchVars == <<keyVars, ptrVars, hitboxVars, gridVars, layerVars, spriteVars,
                  updateVars, ioVars, replayVars, cellVars, turtleVars, consoleVars,
                  elementVars, utilVars, utilVars>>

\* The load event of the i-th image: `resolve(image)`.
ImageLoad(i) ==
    /\ i \in 1..Len(paths) /\ images[i] = "pending"
    /\ images' = [images EXCEPT ![i] = "loaded"]
    /\ allValues' = allFulfilled(i, ImageOf(i))
    /\ fetched' = allSettled(allValues')
    /\ UNCHANGED <<paths, notFetchVars>>

\* The error event of the i-th image: `reject(new Error(...))`.
ImageError(i) ==
    /\ i \in 1..Len(paths) /\ images[i] = "pending"
    /\ images' = [images EXCEPT ![i] = "failed"]
    /\ fetched' = allRejected(LoadError(paths[i]))
    /\ UNCHANGED <<paths, allValues, notFetchVars>>

\* The state after fetchImages(...ps) was called: with no path the promise is
\* fulfilled with the empty list.
FetchStart(ps) ==
    /\ paths = ps
    /\ images = [i \in 1..Len(ps) |-> "pending"]
    /\ allValues = [i \in 1..Len(ps) |-> NoImage]
    /\ fetched = IF ps = <<>>
                 THEN [state |-> "resolved", value |-> <<>>, message |-> ""]
                 ELSE [state |-> "pending", value |-> <<>>, message |-> ""]

NextFetch ==
    \/ \E i \in 1..MaxImages : ImageLoad(i)
    \/ \E i \in 1..MaxImages : ImageError(i)

(***************************************************************************)
(* Diagnostic console                                                      *)
(***************************************************************************)

\* "error" comes from window.onerror, "log" from console.log.
MessageKinds == {"error", "log"}
MessageTexts == {"", "m"}

\* Mutant of clearedLastValue: clearConsole leaves _lastValue as it is.
clearedLastValue_Kept == _lastValue

\* `_lastValue = ["", ""]` in clearConsole.
clearedLastValue == <<"", "">>

\* `value[0] == _lastValue[0] && value[1] == _lastValue[1]`
sameAsLast(kind, text) == kind = _lastValue[1] /\ text = _lastValue[2]

notConsoleVars == <<keyVars, ptrVars, hitboxVars, gridVars, layerVars, spriteVars,
                    updateVars, ioVars, replayVars, cellVars, turtleVars, fetchVars,
                    elementVars, utilVars, utilVars>>

\* _writeConsole(kind, text): `shown` is the number in the line's span (" *n"),
\* 1 while the span is empty.
WriteConsole(kind, text) ==
    /\ IF sameAsLast(kind, text)
       THEN /\ _repetition < MaxRepetition
            /\ _repetition' = _repetition + 1
            /\ consoleLines' = IF _repetitionAt = 0 THEN consoleLines
                               ELSE [consoleLines EXCEPT ![_repetitionAt].shown =
                                                             _repetition']
            /\ UNCHANGED <<_repetitionAt, _lastValue>>
       ELSE /\ Len(consoleLines) < MaxLines
            /\ consoleLines' = Append(consoleLines,
                                      [kind |-> kind, text |-> text, shown |-> 1])
            /\ _repetitionAt' = Len(consoleLines) + 1
            /\ _repetition' = 1
            /\ _lastValue' = <<kind, text>>
    /\ prevMessage' = <<kind, text>>
    /\ occurrences' = IF prevMessage = <<kind, text>> /\ ~clearedSince
                      THEN occurrences + 1 ELSE 1
    /\ clearedSince' = FALSE
    /\ UNCHANGED notConsoleVars

\* clearConsole(): the lines leave the document, _repetition$ keeps a removed span.
ClearConsole ==
    /\ consoleLines # <<>> \/ ~clearedSince
    /\ consoleLines' = <<>>
    /\ _repetitionAt' = 0
    /\ _lastValue' = clearedLastValue
    /\ clearedSince' = TRUE
    /\ UNCHANGED <<_repetition, prevMessage, occurrences, notConsoleVars>>

ConsoleStart ==
    /\ consoleLines = <<>>
    /\ _repetition = 1
    /\ _repetitionAt = 0
    /\ _lastValue = <<"", "">>
    /\ prevMessage = <<"", "">>
    /\ occurrences = 0
    /\ clearedSince = FALSE

NextConsole ==
    \/ \E kind \in MessageKinds, text \in MessageTexts : WriteConsole(kind, text)
    \/ ClearConsole

(***************************************************************************)
(* element                                                                 *)
(***************************************************************************)

\* The tag names element treats differently, when a text is given: "labelable"
\* (input, meter, output, progress, select, textarea) is wrapped in a label,
\* "captioned" (fieldset, details, table) gets a legend, summary or caption child.
TagKinds == {"plain", "labelable", "captioned"}

\* The parent argument: none given, a panel, the canvas container, or an element
\* created before that is none of these.
ParentArgs == {"undefined", "ui", "io", "canvas", "nested"}

\* `(arg2 as HTMLElement) ?? ui`
parentOf(parentArg) == IF parentArg = "undefined" THEN "ui" ELSE parentArg

\* The parents of the nodes element(tag, [text,] parentArg) attaches, in the order
\* of the insertBefore calls; "label" and "self" are nodes the call has created.
elementParents(kind, hasText, parentArg) ==
    IF hasText /\ kind = "labelable"
    THEN <<parentOf(parentArg), "label", "label">>
    ELSE IF hasText /\ kind = "captioned"
         THEN <<"self", parentOf(parentArg)>>
         ELSE <<parentOf(parentArg)>>

\* Mutant of hidesCanvas: only the ui panel counts.
hidesCanvas_UiOnly(parent) == parent = "ui"

\* `parent == ui || parent == io`
hidesCanvas(parent) == parent \in {"ui", "io"}

\* canvas.style.display after the element calls that attach to parents, in order.
RECURSIVE displayAfter(_, _)
displayAfter(display, parents) ==
    IF parents = <<>> THEN display
    ELSE displayAfter(IF hidesCanvas(Head(parents)) THEN "none" ELSE display,
                      Tail(parents))

notElementVars == <<keyVars, ptrVars, hitboxVars, gridVars, spriteVars, updateVars,
                    replayVars, cellVars, turtleVars, fetchVars, consoleVars, utilVars,
                    _canvasLayers, _layer, ctx, W, H, viewport, resized,
                    iParam, _inputLines, _inputLineIndex, _output, reads, lastWritten, written>>

\* element(tag, text, parentArg) when hasText, element(tag, parentArg) otherwise.
ElementCall(kind, hasText, parentArg) ==
    LET parents == elementParents(kind, hasText, parentArg)
        under(p) == \E k \in 1..Len(parents) : parents[k] = p
    IN  /\ under("ui") => uiNodes < MaxUiNodes
        /\ under("io") => Len(ioPanel) < MaxPanel
        /\ uiNodes' = IF under("ui") THEN uiNodes + 1 ELSE uiNodes
        /\ ioPanel' = IF under("io") THEN ioAppend(OtherChild) ELSE ioPanel
        /\ canvasDisplay' = displayAfter(canvasDisplay, parents)
        /\ attachedLast' = parents
        /\ UNCHANGED notElementVars

\* clearUI()
ClearUI ==
    /\ uiNodes > 0
    /\ uiNodes' = 0
    /\ UNCHANGED <<attachedLast, ioPanel, canvasDisplay, notElementVars>>

\* resetCanvas() and setLayer(id), which leave the panels as they are.
ElementResetCanvas == ResetCanvas /\ UNCHANGED attachedLast
ElementSetLayer(id) == SetLayer(id) /\ UNCHANGED attachedLast

ElementStart ==
    /\ uiNodes = 0
    /\ attachedLast = <<>>

NextElement ==
    \/ \E kind \in TagKinds, hasText \in BOOLEAN, parentArg \in ParentArgs :
           ElementCall(kind, hasText, parentArg)
    \/ ClearUI
    \/ ElementResetCanvas
    \/ \E id \in LayerIds : ElementSetLayer(id)

(***************************************************************************)
(* array                                                                   *)
(***************************************************************************)

\* The callbacks passed to array, by name, and the plain values.
ArrayCallbacks == {"index", "double", "square", "seven"}
ArrayPlains == (-MaxPlain)..MaxPlain

\* A value argument: a function, or anything else.
CallbackValue(name) == [isFunction |-> TRUE, name |-> name, v |-> 0]
PlainValue(v) == [isFunction |-> FALSE, name |-> "", v |-> v]
ArrayValues ==
    {CallbackValue(name) : name \in ArrayCallbacks} \cup {PlainValue(v) : v \in ArrayPlains}

\* value(i) for the callback called name.
call(name, i) ==
    CASE name = "index" -> i
      [] name = "double" -> 2 * i
      [] name = "square" -> i * i
      [] OTHER -> 7

\* Mutant of array: the callback gets the position counted from 1.
array_FromOne(length, value) ==
    [k \in 1..length |-> IF value.isFunction THEN call(value.name, k) ELSE value.v]

\* array(length, value): Array.from({ length }, (_, i) => ...); the element of
\* index i, counted from 0 as the code does, is the k-th of the sequence, k = i + 1.
array(length, value) ==
    [k \in 1..length |-> IF value.isFunction THEN call(value.name, k - 1) ELSE value.v]

notArrayVars == <<keyVars, ptrVars, hitboxVars, gridVars, layerVars, spriteVars,
                  updateVars, ioVars, replayVars, cellVars, turtleVars, fetchVars,
                  consoleVars, elementVars, lookup, lastDraw>>

\* The call array(arrLength, arrValue) returns.
ArrayCall ==
    /\ ~arrCalled
    /\ arrCalled' = TRUE
    /\ arrResult' = array(arrLength, arrValue)
    /\ UNCHANGED <<arrLength, arrValue, notArrayVars>>

\* The program is about to call array(length, value).
ArrayStart(length, value) ==
    /\ arrLength = length
    /\ arrValue = value
    /\ arrCalled = FALSE
    /\ arrResult = <<>>

NextArray == ArrayCall

(***************************************************************************)
(* Grid.cellFromPoint                                                      *)
(***************************************************************************)

\* Points are given in half units: the point <<p, q>> is (p / 2, q / 2). They
\* reach from one unit left of (above) every grid to one unit beyond it.
PointCoords == (-2)..(2 * (MaxGridExtent + 2))

\* Math.floor(a / b) for whole numbers a and b, b not 0.
floorDiv(a, b) == IF b > 0 THEN a \div b ELSE (-a) \div (-b)

\* Mutant of strideIndex: the quotient is cut towards zero, as Math.trunc does.
strideIndex_Trunc(p, origin, n, extent) ==
    LET a == (p - 2 * origin) * n
        b == 2 * (extent - 1)
    IN  IF b = 0 THEN -1
        ELSE IF (a >= 0) = (b > 0) THEN floorDiv(a, b) ELSE -floorDiv(-a, b)

\* `Math.floor((x - this.x) / (this.cellWidth + 1))` for x = p / 2: the stride
\* cellWidth + 1 is (extent - 1) / n for n columns on the width extent. A stride
\* of 0 gives NaN or an infinity, never an index of an array: -1 stands for these.
strideIndex(p, origin, n, extent) ==
    LET a == (p - 2 * origin) * n
        b == 2 * (extent - 1)
    IN  IF b = 0 THEN -1 ELSE floorDiv(a, b)

\* grid.cellFromPoint(p / 2, q / 2): `this.cells[row]?.[column]`, NoCell for undefined.
gridCellFromPoint(p, q) ==
    LET column == strideIndex(p, grid.x, grid.columns, grid.width)
        row == strideIndex(q, grid.y, grid.rows, grid.height)
    IN  IF <<row, column>> \in DOMAIN cells THEN <<row, column>> ELSE NoCell

notLookupVars == <<keyVars, ptrVars, hitboxVars, gridVars, layerVars, spriteVars,
                   updateVars, ioVars, replayVars, turtleVars, fetchVars, consoleVars,
                   elementVars>>

\* No cellFromPoint call yet.
NoLookup == lookup = [asked |-> FALSE, p |-> 0, q |-> 0, cell |-> NoCell]

\* grid.cellFromPoint(p / 2, q / 2), the first call of the program.
CellFromPoint(p, q) ==
    /\ grid.rows >= 1
    /\ ~lookup.asked
    /\ lookup' = [asked |-> TRUE, p |-> p, q |-> q, cell |-> gridCellFromPoint(p, q)]
    /\ UNCHANGED <<notLookupVars, arrayVars, cellVars, lastDraw>>

\* new Grid(...) before any lookup.
PointGridConstruct(rows, columns, x, y, width, height) ==
    GridConstruct(rows, columns, x, y, width, height)

NextPoint ==
    \/ \E rows, columns \in GridSizes, x, y \in GridOrigins, width, height \in GridExtents :
           PointGridConstruct(rows, columns, x, y, width, height)
    \/ \E p, q \in PointCoords : CellFromPoint(p, q)

(***************************************************************************)
(* Drawing operations of the scene objects                                 *)
(***************************************************************************)

\* The operations: Cell.draw (every Cell setter ends with it), Grid.draw,
\* Hitbox.drawOutline, Sprite.draw (Sprite.update ends with it), Turtle.forward
\* up to its await.
DrawKinds == {"cell", "grid", "hitbox", "sprite", "turtle"}

\* What a cell's custom callback does with the layers: nothing, or one setLayer call.
CustomCalls == {<<>>} \cup {<<k>> : k \in LayerIds}

\* The setLayer calls of Cell.draw for a cell of layer objLayer, with saved the
\* layer that is active when draw is entered.
cellSetLayers(saved, objLayer, custom) == <<objLayer>> \o custom \o <<saved>>

\* Mutant of drawSetLayers: the closing setLayer(layer) dropped.
drawSetLayers_NoRestore(kind, saved, objLayer, custom) ==
    IF kind = "cell" THEN <<objLayer>> \o custom
    ELSE IF kind = "grid"
         THEN <<objLayer>> \o cellSetLayers(objLayer, objLayer, custom)
                           \o cellSetLayers(objLayer, objLayer, custom)
         ELSE <<objLayer>>

\* The setLayer calls of a drawing operation, in order: `const layer = _layer;
\* setLayer(this.layer); ... setLayer(layer)`; Grid.draw draws its cells (two
\* here) in between, each with the grid's layer.
drawSetLayers(kind, saved, objLayer, custom) ==
    IF kind = "cell" THEN cellSetLayers(saved, objLayer, custom)
    ELSE IF kind = "grid"
         THEN <<objLayer>> \o cellSetLayers(objLayer, objLayer, custom)
                           \o cellSetLayers(objLayer, objLayer, custom) \o <<saved>>
         ELSE <<objLayer, saved>>

\* The registry and the active layer after the setLayer calls ids, from st.
RECURSIVE afterSetLayers(_, _)
afterSetLayers(st, ids) ==
    IF ids = <<>> THEN st
    ELSE afterSetLayers([ls |-> setLayerSurfaces(Head(ids), st.ls), layer |-> Head(ids)],
                        Tail(ids))

\* No drawing operation yet.
NoDraw == lastDraw = [kind |-> "none", objLayer |-> 0, custom |-> <<>>]

notDrawVars == <<keyVars, ptrVars, hitboxVars, gridVars, spriteVars, updateVars, ioVars,
                 replayVars, cellVars, turtleVars, fetchVars, consoleVars, elementVars,
                 arrayVars, lookup, W, H, viewport, canvasDisplay, resized>>

\* A drawing operation of an object that was created while objLayer was active;
\* custom is used by cells only.
DrawOp(kind, objLayer, custom) ==
    /\ _canvasLayers[objLayer].exists
    /\ kind \notin {"cell", "grid"} => custom = <<>>
    /\ UNCHANGED notDrawVars
    /\ LET st == afterSetLayers([ls |-> _canvasLayers, layer |-> _layer],
                                drawSetLayers(kind, _layer, objLayer, custom))
       IN  /\ _canvasLayers' = [st.ls EXCEPT ![objLayer].ink = 1]
           /\ _layer' = st.layer
           /\ ctx' = st.layer
    /\ lastDraw' = [kind |-> kind, objLayer |-> objLayer, custom |-> custom]

NextDraw ==
    \/ \E kind \in DrawKinds, objLayer \in LayerIds, custom \in CustomCalls :
           DrawOp(kind, objLayer, custom)
    \/ \E id \in LayerIds : SetLayer(id)
    \/ ResetCanvas

(***************************************************************************)
(* Specifications                                                          *)
(***************************************************************************)

\* The parts of the program a specification leaves at rest.
KeysIdle == KeysStart /\ watch = "Space"
PtrIdle == PtrStart /\ HitboxStart /\ GridStart /\ observed = "hitbox"
LayersIdle == LayersStart(<<1, 1>>)
SpriteIdle == SpriteStart(1, 250, TRUE)
UpdateIdle == UpdateStart
IOIdle == IOStart([present |-> FALSE, text |-> <<>>])
ReplayIdle == ReplayStart([present |-> FALSE, text |-> <<>>])
CellsIdle == NoGrid
TurtleIdle == TurtleStart(1)
FetchIdle == FetchStart(<<>>)
ConsoleIdle == ConsoleStart
ElementIdle == ElementStart
ArrayIdle == ArrayStart(0, PlainValue(0))
UtilIdle == ArrayIdle /\ NoLookup /\ NoDraw
ExtIdle ==
    ReplayIdle /\ CellsIdle /\ TurtleIdle /\ FetchIdle /\ ConsoleIdle /\ ElementIdle /\ UtilIdle

InitKeys ==
    /\ PtrIdle /\ LayersIdle /\ SpriteIdle /\ UpdateIdle /\ IOIdle /\ ExtIdle
    /\ KeysStart /\ watch \in Keys
InitFocus ==
    /\ LayersIdle /\ SpriteIdle /\ UpdateIdle /\ IOIdle /\ ExtIdle
    /\ KeysIdle /\ PtrIdle
InitPress ==
    /\ KeysIdle /\ LayersIdle /\ SpriteIdle /\ UpdateIdle /\ IOIdle /\ ExtIdle
    /\ PtrStart /\ HitboxStart /\ GridStart /\ observed = "press"
InitHitbox ==
    /\ KeysIdle /\ LayersIdle /\ SpriteIdle /\ UpdateIdle /\ IOIdle /\ ExtIdle
    /\ PtrStart /\ HitboxStart /\ GridStart /\ observed = "hitbox"
InitGrid ==
    /\ KeysIdle /\ LayersIdle /\ SpriteIdle /\ UpdateIdle /\ IOIdle /\ ExtIdle
    /\ PtrStart /\ HitboxStart /\ GridStart /\ observed = "grid"
InitLayers ==
    /\ KeysIdle /\ PtrIdle /\ SpriteIdle /\ UpdateIdle /\ IOIdle /\ ExtIdle
    /\ \E v \in Dims \X Dims : LayersStart(v)
InitReset ==
    /\ KeysIdle /\ PtrIdle /\ SpriteIdle /\ UpdateIdle /\ IOIdle /\ ExtIdle
    /\ \E v \in Dims \X Dims : ScriptStart(v)
InitSprite ==
    /\ KeysIdle /\ PtrIdle /\ LayersIdle /\ UpdateIdle /\ IOIdle /\ ExtIdle
    /\ \E n \in 1..MaxFrames, fps \in FrameRates, lp \in BOOLEAN : SpriteStart(n, fps, lp)
InitUpdate ==
    /\ KeysIdle /\ PtrIdle /\ LayersIdle /\ SpriteIdle /\ IOIdle /\ ExtIdle
    /\ UpdateStart
InitIO ==
    /\ KeysIdle /\ PtrIdle /\ LayersIdle /\ SpriteIdle /\ UpdateIdle /\ ExtIdle
    /\ \E p \in IParams : IOStart(p)
InitReplay ==
    /\ KeysIdle /\ PtrIdle /\ LayersIdle /\ SpriteIdle /\ UpdateIdle /\ CellsIdle
    /\ TurtleIdle /\ FetchIdle /\ ConsoleIdle /\ ElementIdle /\ UtilIdle
    /\ \E p \in ReplayParams(MaxParam) : IOStart(p)
    /\ \E o \in ReplayParams(MaxExpected) : ReplayStart(o)
InitRegion ==
    /\ KeysIdle /\ PtrIdle /\ LayersIdle /\ SpriteIdle /\ UpdateIdle /\ CellsIdle
    /\ TurtleIdle /\ FetchIdle /\ ConsoleIdle /\ ElementIdle /\ UtilIdle
    /\ \E p \in ReplayParams(1) : IOStart(p)
    /\ \E o \in ReplayParams(1) : ReplayStart(o)
InitGeometry ==
    /\ KeysIdle /\ PtrIdle /\ LayersIdle /\ SpriteIdle /\ UpdateIdle /\ IOIdle /\ ReplayIdle
    /\ TurtleIdle /\ FetchIdle /\ ConsoleIdle /\ ElementIdle /\ UtilIdle
    /\ NoGrid
InitTurtle ==
    /\ KeysIdle /\ PtrIdle /\ LayersIdle /\ SpriteIdle /\ UpdateIdle /\ IOIdle /\ ReplayIdle
    /\ CellsIdle /\ FetchIdle /\ ConsoleIdle /\ ElementIdle /\ UtilIdle
    /\ \E d \in Delays : TurtleStart(d)
InitFetch ==
    /\ KeysIdle /\ PtrIdle /\ LayersIdle /\ SpriteIdle /\ UpdateIdle /\ IOIdle /\ ReplayIdle
    /\ CellsIdle /\ TurtleIdle /\ ConsoleIdle /\ ElementIdle /\ UtilIdle
    /\ \E ps \in SeqsUpTo(ImagePaths, MaxImages) : FetchStart(ps)
InitConsole ==
    /\ KeysIdle /\ PtrIdle /\ LayersIdle /\ SpriteIdle /\ UpdateIdle /\ IOIdle /\ ReplayIdle
    /\ CellsIdle /\ TurtleIdle /\ FetchIdle /\ ElementIdle /\ UtilIdle
    /\ ConsoleStart
InitElement ==
    /\ KeysIdle /\ PtrIdle /\ SpriteIdle /\ UpdateIdle /\ IOIdle /\ ReplayIdle
    /\ CellsIdle /\ TurtleIdle /\ FetchIdle /\ ConsoleIdle /\ UtilIdle
    /\ LayersIdle
    /\ ElementStart
InitDraw ==
    /\ KeysIdle /\ PtrIdle /\ LayersIdle /\ SpriteIdle /\ UpdateIdle /\ IOIdle /\ ExtIdle
InitArray ==
    /\ KeysIdle /\ PtrIdle /\ LayersIdle /\ SpriteIdle /\ UpdateIdle /\ IOIdle /\ ReplayIdle
    /\ CellsIdle /\ TurtleIdle /\ FetchIdle /\ ConsoleIdle /\ ElementIdle /\ NoLookup /\ NoDraw
    /\ \E length \in 0..MaxArrayLength, value \in ArrayValues : ArrayStart(length, value)
InitCells ==
    /\ KeysIdle /\ PtrIdle /\ LayersIdle /\ SpriteIdle /\ UpdateIdle /\ IOIdle /\ ReplayIdle
    /\ TurtleIdle /\ FetchIdle /\ ConsoleIdle /\ ElementIdle /\ UtilIdle
    /\ CellsStart(2, 2, 0, 0, 10, 10)

SpecKeys == InitKeys /\ [][NextKeys]_vars
SpecFocus == InitFocus /\ [][NextFocus]_vars
SpecPress == InitPress /\ [][NextPress]_vars
SpecHitbox == InitHitbox /\ [][NextHitbox]_vars
SpecGrid == InitGrid /\ [][NextGrid]_vars
SpecLayers == InitLayers /\ [][NextLayers]_vars
SpecReset == InitReset /\ [][NextReset]_vars
SpecSprite == InitSprite /\ [][NextSprite]_vars
SpecUpdate == InitUpdate /\ [][NextUpdate]_vars
SpecIO == InitIO /\ [][NextIO]_vars
SpecReplay == InitReplay /\ [][NextReplay]_vars
SpecRegion == InitRegion /\ [][NextRegion]_vars
SpecGeometry == InitGeometry /\ [][NextGeometry]_vars
SpecCells == InitCells /\ [][NextCells]_vars
SpecTurtle == InitTurtle /\ [][NextTurtle]_vars
SpecFetch == InitFetch /\ [][NextFetch]_vars
SpecConsole == InitConsole /\ [][NextConsole]_vars
SpecElement == InitElement /\ [][NextElement]_vars
SpecPoint == InitGeometry /\ [][NextPoint]_vars
SpecDraw == InitDraw /\ [][NextDraw]_vars
SpecArray == InitArray /\ [][NextArray]_vars

(***************************************************************************)
(* Properties                                                              *)
(***************************************************************************)

\* C1 (as stated): in every physical press of a key - whatever clears, blurs and
\* other keys' events interleave - the key's pressed query changes false->true
\* exactly once; checked at the keyup that ends the press.
C1_OncePerPress ==
    [][(held[watch] /\ ~held'[watch]) => rises = 1]_vars

\* C1 (amended): a press that began with the key not cleared (stored state not
\* false) and met no window blur and no keyup of its coupled key sees exactly one
\* false->true change of the query, under any clears and repeats during the press.
C1_OncePerCleanPress ==
    [][(held[watch] /\ ~held'[watch] /\ ~tainted) => rises = 1]_vars

\* C1 witness: a clean press of a settable key that the application has cleared
\* while it is still held, after its single rise.
C1_Witness ==
    /\ held[watch] /\ ~tainted /\ rises = 1
    /\ _keys[watch] = "false"

C3_SecondPressClicks == scen \notin {"miss", "missQ"}

\* C3 (amended): the same, provided clicked was queried at least once while
\* everything was released (and nothing was cleared or dropped by mouseout).
C3_SecondPressClicksIfPolled == scen # "missQ"

\* C3 witness: the second press's first query, made inside, returned true.
C3_Witness == scen = "okQ"

\* C4: while a button or touch stays active activated returns true at most once and
\* activeCell changes at most once; activeCell changes only in a query that returns
\* true; activeCell is always a cell of the grid.
C4_OneCellPerCycle ==
    /\ [](cycleTrues <= 1 /\ cycleChanges <= 1 /\ _activeCell \in Cells(TheGrid))
    /\ [][_activeCell' # _activeCell => cycleTrues' = cycleTrues + 1]_vars

\* C4 witness: a held press has activated a cell other than the initial one, and the
\* pointer has since moved to a third cell without activating it.
C4_Witness ==
    /\ cycleTrues = 1 /\ cycleChanges = 1 /\ ~activatable
    /\ _activeCell # <<0, 0>>
    /\ PointerActive
    /\ activatedCell \notin {NoCell, _activeCell}

\* C5: setLayer(id) is possible for every id, and after it a surface for id exists
\* with size W x H, the active layer is id and ctx is its context; a surface that
\* existed is kept as it was (same element, same content), and no other layer's
\* surface is created, removed or changed.
C5_SetLayer ==
    /\ [](\A id \in LayerIds : ENABLED SetLayer(id))
    /\ [][\A id \in LayerIds : SetLayer(id) =>
            /\ _canvasLayers'[id].exists
            /\ _canvasLayers'[id].width = W' /\ _canvasLayers'[id].height = H'
            /\ _layer' = id /\ ctx' = id
            /\ (_canvasLayers[id].exists => _canvasLayers'[id] = _canvasLayers[id])
            /\ \A other \in LayerIds \ {id} : _canvasLayers'[other] = _canvasLayers[other]
       ]_vars

\* C5 witness: a negative id's layer, created earlier and painted on, is active again
\* while another layer exists beside it.
C5_Witness ==
    /\ _layer = -1 /\ ctx = -1
    /\ _canvasLayers[-1].ink = 1
    /\ _canvasLayers[-1].serial < SurfaceCount(_canvasLayers)

\* C6: all created layer surfaces have the same dimensions, W x H.
C6_SameDimensions ==
    \A id \in LayerIds :
        _canvasLayers[id].exists =>
            _canvasLayers[id].width = W /\ _canvasLayers[id].height = H

\* C6 witness: three layers exist, resetCanvas has given them a new size, and the
\* viewport has changed again since.
C6_Witness ==
    /\ SurfaceCount(_canvasLayers) = 3
    /\ resized
    /\ viewport # <<W, H>>

\* C7 (as stated): for a sprite with loop = false and n frames, once the DT of its
\* update() calls sum to at least n frame durations finished is true.
C7_FinishedAfterNDurations ==
    (steady /\ ~loop /\ elapsed >= Len(_frames) * FrameDuration(_framesPerSecond))
        => _finished

\* C7 (amended): for a sprite with loop = false and n frames, finished is true once n
\* update() calls have found the remaining time below zero; when every DT is at
\* most one frame duration that is so once the DT sum to more than n frame
\* durations; and once finished is true the frame index is n-1 and stays there.
C7_FinishedAfterNUnderflows ==
    (steady /\ ~loop) =>
        /\ underflows >= Len(_frames) => _finished
        /\ (smallSteps /\ elapsed > Len(_frames) * FrameDuration(_framesPerSecond))
              => _finished
        /\ _finished => index = Len(_frames) - 1

\* C7 witness: a two-frame sprite that stopped on its last frame after small steps
\* summing to more than two frame durations, and has been updated further.
C7_Witness ==
    /\ steady /\ ~loop /\ smallSteps
    /\ Len(_frames) = 2 /\ _finished /\ index = 1
    /\ elapsed > 2 * FrameDuration(_framesPerSecond)
    /\ underflows > 2

C9_SeededThenLive ==
    LET L == IF iParam.present THEN split(iParam.text) ELSE <<>>
    IN  \A j \in 1..Len(reads) :
            IF j <= Len(L)
            THEN reads[j].seeded /\ reads[j].resolved /\ reads[j].value = L[j]
            ELSE /\ ~reads[j].seeded
                 /\ reads[j].resolved = reads[j].committed
                 /\ reads[j].resolved => reads[j].value = reads[j].text

\* C9 witness: two seeded lines read in order, then a live read committed as "b".
C9_Witness ==
    /\ iParam.present /\ iParam.text = <<NL, "a">>
    /\ Len(reads) = 3
    /\ reads[1].value = <<>> /\ reads[2].value = <<"a">>
    /\ reads[3].committed /\ reads[3].value = <<"b">>

\* C10: a write that follows a write with no read or clearIO between them appends
\* its text to the region of that write and changes nothing else; any other write
\* adds a new region, holding its text, after everything in the panel and changes
\* no existing child.
C10_WriteRegions ==
    [][\A hasArgs \in BOOLEAN, v \in WriteValues, e \in WriteEnds :
         Write(hasArgs, v, e) =>
            LET added == IF hasArgs THEN v \o e ELSE <<NL>>
            IN  IF lastWritten # 0
                THEN ioPanel' = [ioPanel EXCEPT ![lastWritten].text = @ \o added]
                ELSE ioPanel' = Append(ioPanel, [kind |-> "output", ref |-> 0,
                                                  text |-> added])]_vars

\* C10 witness: a region written before a read, and a second region after the
\* read's prompt that took two writes.
C10_Witness ==
    /\ Len(ioPanel) = 3
    /\ ioPanel[1].kind = "output" /\ ioPanel[1].text = <<"x", NL>>
    /\ ioPanel[2].kind = "input"
    /\ ioPanel[3].kind = "output" /\ ioPanel[3].text = <<"x", " ", NL>>
    /\ lastWritten = 3

C12_PositiveWhenLarger ==
    (grid.rows >= 1 /\ grid.width > grid.columns /\ grid.height > grid.rows)
        => (grid.cellWidthNum > 0 /\ grid.cellHeightNum > 0)

\* C12 (amended): the cell width is positive exactly when w > c + 1, the cell height
\* exactly when h > r + 1.
C12_PositiveWhenLargerByTwo ==
    grid.rows >= 1 =>
        /\ grid.cellWidthNum > 0 <=> grid.width > grid.columns + 1
        /\ grid.cellHeightNum > 0 <=> grid.height > grid.rows + 1

\* C12 witness: a 2 x 2 grid of size (4, 3): cells of positive width, height zero.
C12_Witness ==
    /\ grid.rows = 2 /\ grid.columns = 2 /\ grid.width = 4 /\ grid.height = 3
    /\ grid.cellWidthNum > 0 /\ grid.cellHeightNum = 0

\* C13: in a Grid with positive cell size, each column starts one cell width plus 1
\* after the one before and each row one cell height plus 1 below; the first column
\* starts at x + 1, the first row at y + 1, the last column ends at x + width - 1
\* and the last row at y + height - 1 (measures times columns, or times rows).
C13_Tiling ==
    (grid.cellWidthNum > 0 /\ grid.cellHeightNum > 0) =>
        \A rc \in DOMAIN cells :
            LET i == rc[1]
                j == rc[2]
            IN  /\ j + 1 < grid.columns =>
                      cells[<<i, j + 1>>].xNum
                          = cells[rc].xNum + grid.cellWidthNum + grid.columns
                /\ i + 1 < grid.rows =>
                      cells[<<i + 1, j>>].yNum
                          = cells[rc].yNum + grid.cellHeightNum + grid.rows
                /\ j = 0 => cells[rc].xNum = grid.columns * (grid.x + 1)
                /\ i = 0 => cells[rc].yNum = grid.rows * (grid.y + 1)
                /\ j = grid.columns - 1 =>
                      cells[rc].xNum + grid.cellWidthNum
                          = grid.columns * (grid.x + grid.width - 1)
                /\ i = grid.rows - 1 =>
                      cells[rc].yNum + grid.cellHeightNum
                          = grid.rows * (grid.y + grid.height - 1)

\* C13 witness: a 2 x 2 grid at (1, 1) of size (4, 5): cell width 1/2 and cell
\* height 1, the second column at 1 + 3/2 + 1 and the second row at 1 + 2 + 1.
C13_Witness ==
    /\ grid.rows = 2 /\ grid.columns = 2 /\ grid.x = 1 /\ grid.y = 1
    /\ grid.width = 4 /\ grid.height = 5
    /\ grid.cellWidthNum = 1 /\ cells[<<1, 1>>].xNum = 7 /\ cells[<<1, 1>>].yNum = 8

\* C14: cell(r, c).color = v makes the color of that cell v and leaves color, image,
\* text and custom of every other cell as they were.
C14_ColorFrame ==
    [][\A rc \in DOMAIN cellProps, v \in CellColors :
          SetCellColor(rc, v) =>
              /\ cellProps'[rc].color = v
              /\ \A other \in DOMAIN cellProps \ {rc} : cellProps'[other] = cellProps[other]
              /\ DOMAIN cellProps' = DOMAIN cellProps]_vars

\* C14 witness: cell(0, 0) is red while the other three cells hold other contents.
C14_Witness ==
    /\ cellProps[<<0, 0>>].color = "red"
    /\ cellProps[<<0, 1>>].image = "image" /\ cellProps[<<1, 0>>].text = "text"
    /\ cellProps[<<1, 1>>].color = "null" /\ cellProps[<<1, 1>>].custom = "draw"

\* C15: forward, backward, right and left change position or heading when called,
\* and the promise each returns is settled only when the delay has passed since
\* the call; a caller awaiting each command calls the next one no sooner than the
\* delay after the one before.
C15_CommandsTakeTheDelay ==
    \A i \in 1..Len(commands) :
        /\ commands[i].settled => commands[i].settledAt >= commands[i].due
        /\ i > 1 => commands[i].calledAt >= commands[i - 1].due

\* C16: the promise of fetchImages(p1..pn) is fulfilled only when all n images have
\* loaded, and then with the n images in the order of the paths; once an image has
\* failed it is rejected, with an error naming a path that failed, and is never
\* fulfilled; and it is settled as soon as all have loaded or one has failed.
C16_AllOrError ==
    /\ [](fetched.state = "resolved" =>
            /\ \A i \in 1..Len(paths) : images[i] = "loaded"
            /\ Len(fetched.value) = Len(paths)
            /\ \A i \in 1..Len(paths) :
                  fetched.value[i].index = i /\ fetched.value[i].src = paths[i])
    /\ []((\E i \in 1..Len(paths) : images[i] = "failed") =>
            /\ fetched.state = "rejected"
            /\ \E i \in 1..Len(paths) : images[i] = "failed" /\ fetched.message = paths[i])
    /\ [](fetched.state = "pending" <=>
            /\ \E i \in 1..Len(paths) : images[i] = "pending"
            /\ \A i \in 1..Len(paths) : images[i] # "failed")
    /\ [][fetched.state # "pending" => fetched' = fetched]_vars

\* C16 witness: three images, two of them of the same path, all loaded and
\* delivered in the order of the paths.
C16_Witness ==
    /\ paths = <<"a.png", "b.png", "a.png">>
    /\ fetched.state = "resolved"
    /\ fetched.value = <<[src |-> "a.png", index |-> 1], [src |-> "b.png", index |-> 2],
                         [src |-> "a.png", index |-> 3]>>

\* C17: a message equal in kind and text to the message before it, with no
\* clearConsole between them, adds no line and sets the counter of the last line to
\* the number of consecutive occurrences; any other message, the first after a
\* clearConsole included, adds a line with the counter at 1.
C17_Repetitions ==
    [][\A kind \in MessageKinds, text \in MessageTexts :
          WriteConsole(kind, text) =>
              IF prevMessage = <<kind, text>> /\ ~clearedSince
              THEN consoleLines' = [consoleLines EXCEPT ![Len(consoleLines)].shown =
                                                            occurrences + 1]
              ELSE consoleLines' = Append(consoleLines,
                                          [kind |-> kind, text |-> text, shown |-> 1])]_vars

\* C17 witness: the console holds one line, of a message written twice in a row:
\* counter 2.
C17_Witness ==
    /\ consoleLines = <<[kind |-> "log", text |-> "m", shown |-> 2]>>
    /\ _repetition = 2 /\ occurrences = 2 /\ ~clearedSince

\* C18: an element call whose parent is the ui panel (given, or by default) or the
\* io panel - for a labelable kind with a text the parent of its label - leaves the
\* canvas hidden; an element call with any other parent, and setLayer, which
\* attaches the new surface to the canvas container, leave canvas.style.display
\* as it was.
C18_PanelsHideCanvas ==
    /\ [][\A kind \in TagKinds, hasText \in BOOLEAN, parentArg \in ParentArgs :
            ElementCall(kind, hasText, parentArg) =>
                canvasDisplay' = IF parentArg \in {"undefined", "ui", "io"}
                                 THEN "none" ELSE canvasDisplay]_vars
    /\ [][\A id \in LayerIds : ElementSetLayer(id) => canvasDisplay' = canvasDisplay]_vars

\* C18 witness: a labelled input put under the ui panel by default: label under
\* ui, span and input under the label, canvas hidden.
C18_Witness ==
    /\ attachedLast = <<"ui", "label", "label">>
    /\ canvasDisplay = "none" /\ uiNodes = 1 /\ SurfaceCount(_canvasLayers) = 2

\* C19: a blur step leaves every key unpressed, whatever the keys held before:
\* each key query and keyboard.pressed are false afterwards; the mouse button
\* states and the touch state are what they were.
C19_BlurReleasesKeys ==
    [][Blur => /\ \A k \in Keys : ~KeyQuery(k)'
               /\ ~keyboard_pressed'
               /\ UNCHANGED <<_buttons, _touches, _touchable>>]_vars

\* C19 witness: blur came while Space and Enter were down (their keyups have not
\* come), with a mouse button down and a touch on the canvas.
C19_Witness ==
    /\ held["Space"] /\ _keys["Space"] = "undefined"
    /\ held["Enter"] /\ _keys["Enter"] = "undefined"
    /\ _buttons[0] = "true" /\ Len(_touches) = 1

\* C20: a keyup of k stores null for k; a keyup of either shift key stores null
\* for both shift keys, a keyup of either enter key for both enter keys; the slot
\* of every other key keeps its value.
C20_KeyUpStoresNull ==
    [][\A k \in Keys : KeyUp(k) =>
          LET pair == IF k \in {"ShiftLeft", "ShiftRight"}
                      THEN {"ShiftLeft", "ShiftRight"}
                      ELSE IF k \in {"Enter", "NumpadEnter"}
                           THEN {"Enter", "NumpadEnter"}
                           ELSE {k}
          IN  /\ _keys'[k] = "null"
              /\ \A j \in pair : _keys'[j] = "null"
              /\ \A j \in Keys \ pair : _keys'[j] = _keys[j]]_vars

\* C20 witness: ShiftLeft released while ShiftRight is still down: both null, and
\* Space, consumed by the application and still down, is false as before.
C20_Witness ==
    /\ ~held["ShiftLeft"] /\ _keys["ShiftLeft"] = "null"
    /\ held["ShiftRight"] /\ _keys["ShiftRight"] = "null"
    /\ held["Space"] /\ _keys["Space"] = "false"

\* C21 as stated: of two layer surfaces, the one created later is painted over
\* the one created earlier.
C21_LaterIsAbove ==
    \A i, j \in LayerIds :
        (_canvasLayers[i].exists /\ _canvasLayers[j].exists
         /\ _canvasLayers[i].serial > _canvasLayers[j].serial)
        => paintedOver(_canvasLayers[i], _canvasLayers[j])

\* C21: the surface created on the first use of an id gets the id as its z-index:
\* of two layer surfaces the one with the greater id is painted over the other,
\* in whatever order they were created.
C21_GreaterIdIsAbove ==
    \A i, j \in LayerIds :
        (_canvasLayers[i].exists /\ _canvasLayers[j].exists /\ i > j)
        => paintedOver(_canvasLayers[i], _canvasLayers[j])

\* C21 witness: layer -1 was first used after layer 1, and both after layer 0.
C21_Witness ==
    /\ _canvasLayers[1].exists /\ _canvasLayers[1].serial = 2
    /\ _canvasLayers[-1].exists /\ _canvasLayers[-1].serial = 3

\* C22: a resetCanvas step, from any active layer and any registry, leaves the
\* canvas container shown, W and H at the container's size, every surface that
\* existed still in the registry with that size, no surface added but that of
\* layer 0 when it did not exist, and layer 0 active.
C22_ResetCanvas ==
    [][ResetCanvas =>
          /\ canvasDisplay' = ""
          /\ <<W', H'>> = viewport
          /\ \A id \in LayerIds :
                 _canvasLayers[id].exists =>
                     /\ _canvasLayers'[id].exists
                     /\ _canvasLayers'[id].width = W'
                     /\ _canvasLayers'[id].height = H'
          /\ \A id \in LayerIds \ {0} :
                 _canvasLayers'[id].exists => _canvasLayers[id].exists
          /\ _canvasLayers'[0].exists
          /\ _canvasLayers'[0].width = W' /\ _canvasLayers'[0].height = H'
          /\ _layer' = 0 /\ ctx' = 0]_vars

\* C22 witness: resetCanvas has given three surfaces a new size, the canvas is
\* shown and layer 0 is active.
C22_Witness ==
    /\ SurfaceCount(_canvasLayers) = 3
    /\ resized
    /\ viewport = <<W, H>>
    /\ canvasDisplay = "" /\ _layer = 0 /\ ctx = 0

\* C23: array(n, f) has length n and its element of index i is f(i), for each
\* i with 0 <= i < n: i for i => i, 2 * i for i => 2 * i, i * i for i => i * i,
\* 7 for the constant callback; for a plain value v every element is v.
C23_ArrayElements ==
    arrCalled =>
        /\ Len(arrResult) = arrLength
        /\ \A i \in 0..(arrLength - 1) :
               arrResult[i + 1] =
                   IF ~arrValue.isFunction THEN arrValue.v
                   ELSE CASE arrValue.name = "index" -> i
                          [] arrValue.name = "double" -> i + i
                          [] arrValue.name = "square" -> i * i
                          [] arrValue.name = "seven" -> 7

\* C23 witness: array(4, i => i) has returned <<0, 1, 2, 3>>.
C23_Witness ==
    /\ arrCalled /\ arrLength = 4 /\ arrValue = CallbackValue("index")
    /\ arrResult = <<0, 1, 2, 3>>

\* C24: finished turns true only in an update() made while loop is false and the
\* index is at the last frame; an update() that leaves the last frame while loop
\* is true puts the index at 0 and leaves finished as it was; finished, once
\* true, stays true through every update and every assignment to loop, frames
\* and framesPerSecond.
C24_FinishedOnlyWithoutLoop ==
    /\ [][(~_finished /\ _finished') =>
            /\ \E dt \in 0..MaxDT : SpriteUpdate(dt)
            /\ ~loop
            /\ index = Len(_frames) - 1]_vars
    /\ [][\A dt \in 0..MaxDT :
            (SpriteUpdate(dt) /\ Underflow(dt) /\ loop /\ index = Len(_frames) - 1)
            => (index' = 0 /\ _finished' = _finished)]_vars
    /\ [][_finished => _finished']_vars

\* C24 witness: a sprite of two frames finished, loop was then set, and a later
\* update() wrapped the index to 0: finished is still true.
C24_Witness ==
    /\ _finished /\ loop /\ Len(_frames) = 2 /\ index = 0
    /\ remainingTime > FrameDuration(_framesPerSecond) - DT /\ DT > 0

\* C25: on a grid with positive cell size, cellFromPoint(px, py) is the cell whose
\* rectangle [cell.x, cell.x + cellWidth) x [cell.y, cell.y + cellHeight) holds the
\* point, and undefined for a point left of x, above y, or at or beyond x + width
\* or y + height; a cell it returns has for row and column the floor of the
\* offset from the grid's origin divided by the stride cellHeight + 1, cellWidth + 1.
C25_CellFromPoint ==
    (lookup.asked /\ grid.cellWidthNum > 0 /\ grid.cellHeightNum > 0) =>
        LET p == lookup.p
            q == lookup.q
            strideX2 == 2 * (grid.cellWidthNum + grid.columns)
            strideY2 == 2 * (grid.cellHeightNum + grid.rows)
        IN  /\ \A rc \in DOMAIN cells :
                   (/\ 2 * cells[rc].xNum <= p * grid.columns
                    /\ p * grid.columns < 2 * (cells[rc].xNum + grid.cellWidthNum)
                    /\ 2 * cells[rc].yNum <= q * grid.rows
                    /\ q * grid.rows < 2 * (cells[rc].yNum + grid.cellHeightNum))
                   => lookup.cell = rc
            /\ (\/ p < 2 * grid.x \/ q < 2 * grid.y
                \/ p >= 2 * (grid.x + grid.width) \/ q >= 2 * (grid.y + grid.height))
               => lookup.cell = NoCell
            /\ lookup.cell # NoCell =>
                   LET row == lookup.cell[1]
                       column == lookup.cell[2]
                   IN  /\ column * strideX2 <= (p - 2 * grid.x) * grid.columns
                       /\ (p - 2 * grid.x) * grid.columns < (column + 1) * strideX2
                       /\ row * strideY2 <= (q - 2 * grid.y) * grid.rows
                       /\ (q - 2 * grid.y) * grid.rows < (row + 1) * strideY2

\* C25 witness: on a 2 x 2 grid at (1, 1) of size 5 x 5 (cells 1 x 1), the point
\* (4.5, 2.5) lies inside cell (0, 1), which the lookup returned.
C25_Witness ==
    /\ lookup.asked /\ lookup.p = 9 /\ lookup.q = 5 /\ lookup.cell = <<0, 1>>
    /\ grid.rows = 2 /\ grid.columns = 2 /\ grid.x = 1 /\ grid.y = 1
    /\ grid.width = 5 /\ grid.height = 5

C27_DrawKeepsLayer ==
    [][\A kind \in DrawKinds, objLayer \in LayerIds, custom \in CustomCalls :
          DrawOp(kind, objLayer, custom) => (_layer' = _layer /\ ctx' = ctx)]_vars

\* C27 witness: while layer 1 was active, a cell of layer 0 was drawn and its
\* custom callback called setLayer(-1), which created that surface: layer 1 is
\* still active and the cell's layer is painted.
C27_Witness ==
    /\ lastDraw = [kind |-> "cell", objLayer |-> 0, custom |-> <<-1>>]
    /\ _layer = 1 /\ ctx = 1
    /\ _canvasLayers[-1].exists /\ _canvasLayers[-1].serial = 3
    /\ _canvasLayers[0].ink = 1 /\ _canvasLayers[1].ink = 0

\* C28: when the first clicked (activated) query of a press - a button or touch
\* is active, until none is - sees the pointer outside the hitbox (outside every
\* cell), every later query of that kind in the press returns false, wherever
\* the pointer is by then, and activeCell stays what it was when the press began.
C28_MissConsumesPress ==
    /\ [][(PressClicked /\ firstQuery.hitbox = "out") => ~clickedResult]_vars
    /\ [][(PressActivated /\ firstQuery.grid = "out") => ~activatedResult]_vars
    /\ [](firstQuery.grid = "out" => _activeCell = firstQuery.cell)

\* C28 witness: in one press the first clicked query and the first activated
\* query saw the pointer outside; it is now inside the hitbox and inside a cell
\* that is not the active one, and a later query has seen it there.
C28_Witness ==
    /\ firstQuery.hitbox = "out" /\ firstQuery.grid = "out" /\ firstQuery.later
    /\ PointerActive
    /\ contains(TheHitbox, PointerX, PointerY)
    /\ activatedCell \notin {NoCell, _activeCell}

\* C29: at load in replay mode, with an output region active, the text compared
\* with the expected text is exactly the text written since the program's latest
\* read() or clearIO(), whatever was written before it; with no region active
\* (nothing written since) nothing is compared.
C29_OnlyActiveRegion ==
    [][Load =>
         IF written.since = <<>>
         THEN resp'.state = "error"
         ELSE /\ resp'.raw = written.since
              /\ resp'.state = "match" <=> replayOutput(written.since) = oParam.text]_vars

\* C29 witness: text was written, then a read() was made, then other text was
\* written, and the load reported a match with the expected text, which is
\* the later text alone.
C29_Witness ==
    /\ resp.state = "match"
    /\ written.before
    /\ Len(ioPanel) > 3 /\ ioPanel[1].kind = "output" /\ ioPanel[2].kind = "input"
    /\ ioPanel[1].text # <<>>
    /\ oParam.text = <<"a">> /\ written.since = <<"a">>

\* C30: a tick whose callback throws requests no further refresh, and from then
\* on no refresh is requested and no callback runs, whatever is installed with
\* setUpdate; a tick whose callback returns always requests the next refresh.
C30_ThrowStopsLoop ==
    /\ [][CallbackThrow => ~scheduled']_vars
    /\ [][CallbackReturn => scheduled']_vars
    /\ [](afterThrow # "no" => (~scheduled /\ running = "none"))

\* C30 witness: after a callback threw another callback was installed with
\* setUpdate and a display refresh passed without it being called.
C30_Witness ==
    /\ afterThrow = "passed"
    /\ _update \in UserCallbacks
    /\ lastRefresh = "missed" /\ calls = 0

====
